---------------------------- MODULE Spec2Model ----------------------------
(***************************************************************************)
(* Model of the satellite fire-detection core:                             *)
(*   - FireHistoryTracker   (src/src/utils/fire_history.py)                *)
(*   - ImageCache, SatelliteImageFetcher, validate_coordinates             *)
(*                          (src/src/utils/nasa_api.py)                    *)
(*   - NASAWorldviewScraper (src/src/utils/web_scraper.py)                 *)
(*   - NASAFIRMSAPIClient   (src/satellite-detection-project/src/utils/    *)
(*                           nasa_firms_api.py)                            *)
(*   - SatelliteClient      (src/src/api/satellite_client.py)              *)
(*   - detect_fires, send_fire_alerts (src/satellite-detection-project/    *)
(*                           src/api/extended_main.py)                     *)
(*   - detect_fires_in_region, detect_smoke, detect_dust                   *)
(*                          (src/src/api/main.py)                          *)
(*                                                                         *)
(* The components do not share state, so each has a specification of its   *)
(* own over the module's variables:                                        *)
(*   SpecPure   the pure helpers (validation, normalisation, CSV parsing)  *)
(*   SpecFetch  the retrying fetcher over products of one and of three     *)
(*              layers                                                     *)
(*   SpecCache  the image cache under more requests than it holds          *)
(*   SpecStore  the SQLite history store                                   *)
(*   SpecLocation, SpecRetention  the store queried by location, marked    *)
(*              and cleaned up                                             *)
(*   SpecIngest the store handed events with and without valid coordinates *)
(*   SpecWriters the store written by two processes, with cleanups         *)
(*   SpecCancel the fetcher whose task may be cancelled                    *)
(*   SpecFaults the cache with failing writes and deletions and restarts   *)
(*   SpecFeed   the fire feed client asking several regions                *)
(*   SpecClient the satellite client sorting detections into tiers         *)
(*   SpecApi    the HTTP endpoints that report fires, smoke and dust       *)
(*   SpecAlerts, SpecAlertsLive  one fire request with its stored          *)
(*              detections, its alert task and the statistics              *)
(*                                                                         *)
(* A call that catches an error of its database or of its cache directory  *)
(* has that outcome beside the successful one: the queries of the history  *)
(* store return an empty result, the cache logs and goes on.               *)
(*                                                                         *)
(* Fixed-point conventions: a confidence handed to _normalize_confidence   *)
(* as a number is written in hundredths (45 is 0.45, 4500 is 45); a        *)
(* normalised confidence is written in ten-thousandths (3000 is 0.3); a    *)
(* confidence held by the history store is written in hundredths.          *)
(* A confidence of the satellite client is a Python float and keeps the     *)
(* rounding of its additions (see Float). Positions of the history store   *)
(* are whole degrees, distances and radii are in metres, and the store's   *)
(* clock counts half hours. A coordinate that is not a whole number of     *)
(* degrees is written by its ten-thousandths (see Round4: Round4(-1199882) *)
(* is -119.9882).                                                          *)
(***************************************************************************)
EXTENDS Integers, Sequences, FiniteSets, TLC

VARIABLES
    \* ---- pure helpers ----
    ppc,            \* "call" before the helper ran, "done" after
    fn,             \* which helper this behaviour calls
    coordinates,    \* argument of validate_coordinates
    valid,          \* its result: "True", "False", "raised" ("none" before)
    confidence,     \* argument of _normalize_confidence (a Python value)
    normalized,     \* its result in ten-thousandths (-1 before)
    csv_rows,       \* data rows of the feed's text table, header removed
    fires_out,      \* the list of fires the parser returned
    \* ---- ImageCache ----
    files,          \* cache_dir: cache key -> pickled image
    access_times,   \* ImageCache.access_times, a dict in insertion order
    clock,          \* the last value datetime.now() returned
    \* ---- SatelliteImageFetcher.fetch_satellite_image ----
    fpc,            \* "idle", "await" (in _fetch_with_timeout), "sleep", "done",
                    \* "cancelled"
    request,        \* the arguments of the fetch in progress
    attempt,        \* the loop variable of the retry loop
    workers,        \* the executor work items of this fetch, one per attempt
    sleeps,         \* the backoff sleeps of this fetch, in seconds
    result,         \* what the fetch returned
    hit,            \* whether the fetch was answered from the cache
    retrieved,      \* what a direct ImageCache.get call returned
    \* ---- history of the cache, kept for the properties ----
    last_access,    \* request -> time of its last set or get hit (-1: not cached)
    evicted,        \* the requests whose entry the last store removed
    \* ---- FireHistoryTracker ----
    table_fires,    \* the committed rows of table fires, in rowid order
    sqlite_sequence,\* the largest id AUTOINCREMENT has given to a committed row
    txn,            \* the rows inserted by the open transaction
    last_insert_rowid, \* of the connection of the call in progress
    spc,            \* "idle", "executemany", "committed", "returned", "raised"
    detections,     \* the events handed to add_detections_batch
    records,        \* the tuples prepared for executemany
    record_ids,     \* what add_detections_batch returned
    store_clock,    \* datetime.now() of the store's process, in half hours
    recent,         \* the last get_recent_detections call and its result
    outcome,        \* the last location query, alert mark or cleanup and its result
    \* ---- NASAFIRMSAPIClient.get_global_fires ----
    gpc,            \* "idle", "loop", "done"
    responses,      \* what the feed answered for the hotspots asked so far
    all_fires,      \* the list the call is building, then its result
    urls,           \* the area requests issued to the feed so far, in order
    \* ---- SatelliteClient.get_fire_detections_with_confidence ----
    kpc,            \* "call" before the classifier ran, "done" after, "idle"
    active_fires,   \* what get_active_fires returned
    report,         \* the dict the classifier returned
    \* ---- the HTTP endpoints that report fires ----
    apc,            \* "call" before the handler ran, "done" after, "idle"
    call,           \* the endpoint asked, the request, and what the feed and the
                    \* random generators give during the call
    effects,        \* the calls the handler made to the feed, the history store
                    \* and the background tasks, in order
    reply,          \* the HTTP status and body the caller receives
    fallback,       \* whether the handler fabricated the detections it reports
    \* ---- the alerts of POST /api/detect/fires ----
    tasks,          \* the background tasks added and not yet run, in order
    delivered,      \* the ids of the stored events an alert mail was sent for
    statistics      \* what get_statistics has read so far, then what it returned

pureVars == <<ppc, fn, coordinates, valid, confidence, normalized, csv_rows, fires_out>>

cacheVars == <<files, access_times, clock, last_access, evicted>>

fetchVars == <<fpc, request, attempt, workers, sleeps, result, hit, retrieved>>

storeVars == <<table_fires, sqlite_sequence, txn, last_insert_rowid, spc, detections,
               records, record_ids, store_clock, recent, outcome>>

feedVars == <<gpc, responses, all_fires, urls>>

clientVars == <<kpc, active_fires, report>>

apiVars == <<apc, call, effects, reply, fallback>>

alertVars == <<tasks, delivered, statistics>>

vars == <<pureVars, cacheVars, fetchVars, storeVars, feedVars, clientVars, apiVars,
          alertVars>>

\* what the actions of one component leave alone
nonPure  == <<cacheVars, fetchVars, storeVars, feedVars, clientVars, apiVars,
             alertVars>>
nonFetch == <<pureVars, storeVars, feedVars, clientVars, apiVars,
             alertVars>>
nonStore == <<pureVars, cacheVars, fetchVars, feedVars, clientVars, apiVars,
             alertVars>>
nonFeed  == <<pureVars, cacheVars, fetchVars, storeVars, clientVars, apiVars,
             alertVars>>
nonClient == <<pureVars, cacheVars, fetchVars, storeVars, feedVars, apiVars,
             alertVars>>
nonApi   == <<pureVars, cacheVars, fetchVars, storeVars, feedVars, clientVars,
             alertVars>>
nonAlert == <<pureVars, cacheVars, fetchVars, feedVars, clientVars>>

-----------------------------------------------------------------------------
(* Bounds of the model *)

\* longest coordinate list handed to validate_coordinates
MaxComponents == 3
\* most data rows in one feed response
MaxRows == 3
\* ImageCache.max_size (100 in the program)
MaxSize == 2
\* SatelliteImageFetcher.max_retries of the module's fetcher
MaxRetries == 3
\* the clock stops advancing here
MaxClock == 1
\* most events in one add_detections_batch call
MaxBatch == 2
\* most rows ever stored: a batch that would exceed it is not started
MaxStored == 4
\* the store's clock stops advancing here
MaxNow == 1
\* how many hotspots of its list get_global_fires asks
MaxHotspots == 3
\* most fires get_active_fires hands to the classifier
MaxFires == 2

-----------------------------------------------------------------------------
(* validate_coordinates *)

\* whole degrees around every boundary of the two ranges
CoordValues == {-181, -180, -91, -90, 0, 35, 90, 91, 180, 181}

CoordLists == UNION {[1..n -> CoordValues] : n \in 0..MaxComponents}

\* the comparison written with strict bounds
validate_coordinates_strict(c) ==
    IF Len(c) # 2
    THEN "False"
    ELSE LET lat == c[1]
             lon == c[2]
         IN IF -90 < lat /\ lat < 90 /\ -180 < lon /\ lon < 180 THEN "True" ELSE "False"

validate_coordinates(c) ==
    IF Len(c) # 2
    THEN "False"
    ELSE LET lat == c[1]
             lon == c[2]
         IN IF -90 <= lat /\ lat <= 90 /\ -180 <= lon /\ lon <= 180 THEN "True" ELSE "False"

-----------------------------------------------------------------------------
(* Python values reaching _normalize_confidence *)

PyStr(s) == [type |-> "str", s |-> s, n |-> 0]
PyNum(n) == [type |-> "num", s |-> "", n |-> n]
PyNone   == [type |-> "NoneType", s |-> "", n |-> 0]

\* str.lower() on the strings of the model
Lower(s) ==
    CASE s = "L" -> "l"
      [] s \in {"LOW", "Low"} -> "low"
      [] s = "N" -> "n"
      [] s \in {"NOMINAL", "Nominal"} -> "nominal"
      [] s = "H" -> "h"
      [] s \in {"HIGH", "High"} -> "high"
      [] s = "XYZ" -> "xyz"
      [] OTHER -> s

ConfidenceStrings ==
    {"l", "L", "low", "LOW", "Low", "n", "N", "nominal", "NOMINAL", "Nominal",
     "h", "H", "high", "HIGH", "High", "xyz", "XYZ", "", "85", "0.5"}

\* numbers in hundredths: -0.01, 0, 0.45, 1, 1.01, 1.5, 45, 85, 100, 100.01, 150
ConfidenceNumbers == {-1, 0, 45, 100, 101, 150, 4500, 8500, 10000, 10001, 15000}

ConfidenceInputs ==
    {PyStr(s) : s \in ConfidenceStrings} \cup {PyNum(n) : n \in ConfidenceNumbers}
        \cup {PyNone}

\* the percentage range written with an exclusive upper bound
_normalize_confidence_exclusive(c) ==
    IF c.type = "str"
    THEN LET conf_lower == Lower(c.s)
         IN IF conf_lower \in {"l", "low"} THEN 3000
            ELSE IF conf_lower \in {"n", "nominal"} THEN 6000
            ELSE IF conf_lower \in {"h", "high"} THEN 9000
            ELSE 5000
    ELSE IF c.type = "num"
    THEN LET val == c.n
         IN IF 0 <= val /\ val <= 100 THEN val * 100
            ELSE IF 0 <= val /\ val < 10000 THEN val
            ELSE 5000
    ELSE 5000

_normalize_confidence(c) ==
    IF c.type = "str"
    THEN LET conf_lower == Lower(c.s)
         IN IF conf_lower \in {"l", "low"} THEN 3000
            ELSE IF conf_lower \in {"n", "nominal"} THEN 6000
            ELSE IF conf_lower \in {"h", "high"} THEN 9000
            ELSE 5000
    ELSE IF c.type = "num"
    THEN LET val == c.n
         IN IF 0 <= val /\ val <= 100 THEN val * 100      \* already 0-1: as is
            ELSE IF 0 <= val /\ val <= 10000 THEN val     \* 0-100: val / 100.0
            ELSE 5000
    ELSE 5000                                             \* float() raised


-----------------------------------------------------------------------------
(* The feed's text table and its two parsers *)

\* Python's None, as the value csv.DictReader gives a column the row is too
\* short to hold; no cell text equals it
None == "<None>"

\* float(text): the numeric cell texts of the model and their values
FloatTexts == {"35.0", "36.0", "-110.0", "600", "85", "0"}

FloatOf(s) ==
    CASE s = "35.0" -> 35
      [] s = "36.0" -> 36
      [] s = "-110.0" -> -110
      [] s = "600" -> 600
      [] s = "85" -> 85
      [] s = "0" -> 0

\* float(x) raises ValueError on other text and TypeError on None
FloatRaises(x) == x \notin FloatTexts

\* the columns of the table, in the order of its header row
FeedHeader == <<"latitude", "longitude", "frp", "confidence">>

\* data rows as lists of cell texts
RowSamples ==
    { <<"35.0", "-110.0", "600", "h">>,       \* categorical confidence
      <<"36.0", "-110.0", "85", "85">>,       \* percentage confidence
      <<"abc", "-110.0", "600", "h">>,        \* latitude is not a number
      <<"35.0", "-110.0">>,                   \* row cut short
      <<"35.0", "-110.0", "", "l">>,          \* empty frp
      <<"36.0", "-110.0", "0">>,              \* confidence column missing
      <<"35.0", "-110.0", "0", "600", "0", "2024-01-15", "0", "N", "85">> }

Tables == UNION {[1..n -> RowSamples] : n \in 0..MaxRows}

\* csv.DictReader: the row as a mapping from the header's names
DictRow(cells) ==
    [k \in {FeedHeader[i] : i \in 1..Len(FeedHeader)} |->
        LET i == CHOOSE j \in 1..Len(FeedHeader) : FeedHeader[j] = k
        IN IF i <= Len(cells) THEN cells[i] ELSE None]

\* the float() conversions of one row of _parse_csv_response
RowRaises(row) ==
    \/ FloatRaises(row["latitude"])
    \/ FloatRaises(row["longitude"])
    \/ FloatRaises(row["frp"])

\* the fire built from one row of _parse_csv_response
RowFire(row) ==
    [latitude   |-> FloatOf(row["latitude"]),
     longitude  |-> FloatOf(row["longitude"]),
     frp        |-> FloatOf(row["frp"]),
     confidence |-> _normalize_confidence(
                        IF row["confidence"] = None THEN PyNone
                        ELSE PyStr(row["confidence"]))]

\* the loop of _parse_csv_response: the try encloses the whole loop, so the
\* first row that raises ends it and the fires built so far are returned
RECURSIVE ParseRows(_, _)
ParseRows(rows, fires) ==
    IF rows = <<>> THEN fires
    ELSE LET row == DictRow(Head(rows))
         IN IF RowRaises(row)
            THEN fires
            ELSE ParseRows(Tail(rows), Append(fires, RowFire(row)))

_parse_csv_response(rows) == ParseRows(rows, <<>>)

\* one line of SatelliteClient._parse_csv: the parts are read by position
LineRaises(parts) ==
    \/ FloatRaises(parts[1])
    \/ FloatRaises(parts[2])
    \/ (Len(parts) > 8 /\ FloatRaises(parts[9]))
    \/ FloatRaises(parts[4])

LineFire(parts) ==
    [latitude   |-> FloatOf(parts[1]),
     longitude  |-> FloatOf(parts[2]),
     \* float(parts[8]) / 100.0, or 0.8
     confidence |-> IF Len(parts) > 8 THEN FloatOf(parts[9]) * 100 ELSE 8000,
     power_mw   |-> FloatOf(parts[4])]

\* SatelliteClient._parse_csv: the try is inside the loop
RECURSIVE ParseLines(_, _)
ParseLines(lines, fires) ==
    IF lines = <<>> THEN fires
    ELSE LET parts == Head(lines)
         IN IF Len(parts) >= 4 /\ ~LineRaises(parts)
            THEN ParseLines(Tail(lines), Append(fires, LineFire(parts)))
            ELSE ParseLines(Tail(lines), fires)

_parse_csv(rows) == ParseLines(rows, <<>>)

-----------------------------------------------------------------------------
(* ImageCache *)

\* the keyword names of a fetch, numbered in the order sorted() gives them
NameRank(name) ==
    CASE name = "coordinates" -> 1
      [] name = "date" -> 2
      [] name = "product" -> 3
      [] name = "radius_km" -> 4
      [] name = "satellite" -> 5

\* None, where an image is expected
NoImage == <<>>

\* no direct call of the cache has been made
NoRetrieval == [kwargs |-> <<>>, value |-> NoImage]

\* The fetches of the model differ in product and date. The cache is explored
\* with three requests for products of one layer, the retry loop with a request
\* for a product code layers_map does not hold (three layers) and one for a
\* product of one layer.
CacheRequests ==
    { [product |-> "MOD09GA", date |-> "2024-01-15"],
      [product |-> "MOD09GA", date |-> "2024-01-16"],
      [product |-> "VNP09",   date |-> "2024-01-15"] }

FetchRequests ==
    { [product |-> "UNKNOWN", date |-> "2024-01-15"],
      [product |-> "MOD09GA", date |-> "2024-01-15"] }

Requests == CacheRequests \cup FetchRequests

\* cache_key of fetch_satellite_image: the keyword arguments, in the order of
\* the dict literal, each value as str() prints it
CacheKeyDict(r) ==
    << <<"satellite", "'MODIS'">>,
       <<"product", r.product>>,
       <<"date", r.date>>,
       <<"coordinates", "(35.0, -110.0)">>,
       <<"radius_km", "50.0">> >>

Reverse(seq) == [i \in 1..Len(seq) |-> seq[Len(seq) + 1 - i]]

\* sorted(kwargs.items()): the names of one call are distinct, so the order of
\* the names decides
SortedItems(kwargs) ==
    LET n    == Len(kwargs)
        rank == [m \in 1..n |-> NameRank(kwargs[m][1])]
        at   == [i \in 1..n |->
                    CHOOSE j \in 1..n : Cardinality({m \in 1..n : rank[m] < rank[j]}) = i - 1]
    IN [i \in 1..n |-> kwargs[at[i]]]

\* the orders in which a caller of the cache may write the keyword arguments
KwOrders(r) == {CacheKeyDict(r), Reverse(CacheKeyDict(r))}

\* sorted(kwargs.items()) of every call of the model, computed once
SortedItemsOf == [kwargs \in UNION {KwOrders(r) : r \in Requests} |-> SortedItems(kwargs)]

\* md5(str(sorted(kwargs.items()))): the digest is taken as one-to-one on the
\* printed item lists
_get_cache_key(kwargs) == SortedItemsOf[kwargs]

\* access_times[key] = now: a present key keeps its place in the dict, a new
\* key goes to the end
DictSet(d, key, now) ==
    IF \E i \in 1..Len(d) : d[i].key = key
    THEN [i \in 1..Len(d) |-> IF d[i].key = key THEN [key |-> key, t |-> now] ELSE d[i]]
    ELSE Append(d, [key |-> key, t |-> now])

DictDel(d, key) == SelectSeq(d, LAMBDA e : e.key # key)

\* a payload file whose pickle.dump did not finish
Truncated == <<"truncated">>

\* ImageCache.get: the cache after the call and the value returned; the access
\* time is set before the payload is read, and a payload pickle.load cannot
\* read gives None
ImageCache_get(c, kwargs, now) ==
    LET cache_key == _get_cache_key(kwargs)
    IN IF cache_key \in DOMAIN c.files
       THEN [cache |-> [c EXCEPT !.access_times = DictSet(@, cache_key, now)],
             value |-> IF c.files[cache_key] = Truncated THEN NoImage
                       ELSE c.files[cache_key]]
       ELSE [cache |-> c, value |-> NoImage]

\* ImageCache.set when pickle.dump raises: open() has created the payload
\* file, the error is logged and access_times is not reached
ImageCache_set_raises(c, kwargs) ==
    LET cache_key == _get_cache_key(kwargs)
    IN [files        |-> [k \in DOMAIN c.files \cup {cache_key} |->
                             IF k = cache_key THEN Truncated ELSE c.files[k]],
        access_times |-> c.access_times]

\* ImageCache.set
ImageCache_set(c, image, kwargs, now) ==
    LET cache_key == _get_cache_key(kwargs)
    IN [files        |-> [k \in DOMAIN c.files \cup {cache_key} |->
                             IF k = cache_key THEN image ELSE c.files[k]],
        access_times |-> DictSet(c.access_times, cache_key, now)]

\* min(self.access_times.items(), key=lambda x: x[1]): the first item, in dict
\* order, with the least time
Oldest(d) ==
    LET i == CHOOSE i \in 1..Len(d) :
                 /\ \A j \in 1..Len(d) : d[i].t <= d[j].t
                 /\ \A j \in 1..(i - 1) : d[j].t > d[i].t
    IN d[i]

\* ImageCache.clear_old
ImageCache_clear_old(c) ==
    IF Len(c.access_times) > MaxSize
    THEN LET oldest == Oldest(c.access_times)
         IN IF oldest.key \in DOMAIN c.files
            THEN [files        |-> [k \in DOMAIN c.files \ {oldest.key} |-> c.files[k]],
                  access_times |-> DictDel(c.access_times, oldest.key)]
            ELSE c      \* unlink raised: the entry stays in access_times
    ELSE c

\* the cache object
Cache == [files |-> files, access_times |-> access_times]

\* datetime.now(): the clock as it is or one tick later
Nows == {t \in {clock, clock + 1} : t <= MaxClock}

\* the cache key of each request of the model
RequestKey == [r \in Requests |-> _get_cache_key(CacheKeyDict(r))]

\* the history of accesses after a step that leaves the cache as c
LastAccessAfter(c, touched, now) ==
    [r \in Requests |->
        IF RequestKey[r] \notin DOMAIN c.files THEN -1
        ELSE IF r \in touched THEN now
        ELSE last_access[r]]

CacheEmpty ==
    /\ files = <<>>
    /\ access_times = <<>>
    /\ clock = 0
    /\ last_access = [r \in Requests |-> -1]
    /\ evicted = {}

\* the history store as _init_database leaves a new database
NoQuery == [hours |-> 0, min_confidence |-> 0, limit |-> 0, at |-> 0, rows |-> <<>>]

\* no location query, alert mark or cleanup since the last write
NoOutcome == [op |-> "none"]

StoreIdle ==
    /\ table_fires = <<>>
    /\ sqlite_sequence = 0
    /\ txn = <<>>
    /\ last_insert_rowid = 0
    /\ spc = "idle"
    /\ detections = <<>>
    /\ records = <<>>
    /\ record_ids = <<>>
    /\ store_clock = 0
    /\ recent = NoQuery
    /\ outcome = NoOutcome

\* no get_global_fires call yet
FeedIdle ==
    /\ gpc = "idle"
    /\ responses = <<>>
    /\ all_fires = <<>>
    /\ urls = <<>>

\* no request yet
ApiIdle ==
    /\ apc = "idle"
    /\ call = [endpoint |-> "none"]
    /\ effects = <<>>
    /\ reply = [status |-> 0]
    /\ fallback = FALSE

\* get_statistics has not been called: none of its SELECTs has run
NoStatistics ==
    [selects |-> 0, cutoff_time |-> <<>>, total_detections |-> -1,
     high_confidence_detections |-> -1, alerts_sent |-> -1]

\* the empty dict get_statistics returns when the database raises
EmptyDict == [key \in {} |-> 0]

\* no background task and no alert yet
AlertIdle ==
    /\ tasks = <<>>
    /\ delivered = {}
    /\ statistics = NoStatistics

\* no classifier call yet
NoReport == [total_detections |-> 0, high_confidence |-> <<>>,
             moderate_confidence |-> <<>>, low_confidence |-> <<>>]

ClientIdle ==
    /\ kpc = "idle"
    /\ active_fires = <<>>
    /\ report = NoReport

\* no helper call in progress
PureIdle ==
    /\ coordinates = <<>>
    /\ valid = "none"
    /\ confidence = PyNone
    /\ normalized = -1
    /\ csv_rows = <<>>
    /\ fires_out = <<>>

-----------------------------------------------------------------------------
(* SatelliteImageFetcher and the scraper it runs in the executor *)

\* SatelliteImageFetcher._get_layers_for_product
_get_layers_for_product(product) ==
    IF product = "MOD09GA"
    THEN <<"MODIS_Terra_CorrectedReflectance_TrueColor">>
    ELSE IF product = "MYD09GA"
    THEN <<"MODIS_Aqua_CorrectedReflectance_TrueColor">>
    ELSE IF product = "VNP09"
    THEN <<"VIIRS_SNPP_CorrectedReflectance_TrueColor">>
    ELSE IF product = "ABI"
    THEN <<"GOES16_ABI_DisplayTrueColor">>
    ELSE <<"VIIRS_SNPP_CorrectedReflectance_TrueColor",
           "MODIS_Aqua_CorrectedReflectance_TrueColor",
           "MODIS_Terra_CorrectedReflectance_TrueColor">>

\* the image the source holds for a request
ImageOf(r) == <<r.product, r.date>>

\* A work item runs NASAWorldviewScraper.fetch_satellite_image over the layers
\* of the product: "layer" is the layer whose request is in flight (state
\* "running") or was the last one ("image": it answered; "none": every layer
\* failed). "abandoned" is set when wait_for timed out on it: the executor
\* thread cannot be cancelled and goes on.
NewWorker == [layer |-> 1, state |-> "running", image |-> NoImage, abandoned |-> FALSE]

Current == workers[Len(workers)]

\* how often layer number l has been tried in this fetch
Tries(l) == Cardinality({w \in 1..Len(workers) : workers[w].layer >= l})

NumLayers == Len(_get_layers_for_product(request.product))

FetchIdle ==
    /\ fpc = "idle"
    /\ request = [product |-> "MOD09GA", date |-> "2024-01-15"]
    /\ attempt = 0
    /\ workers = <<>>
    /\ sleeps = <<>>
    /\ result = NoImage
    /\ hit = FALSE
    /\ retrieved = NoRetrieval

\* the body of the retry loop up to its await: the work item is handed to the
\* executor; past the last attempt the loop ends and the fetch returns None
EnterAttempt(a, ws) ==
    IF a < MaxRetries
    THEN /\ attempt' = a
         /\ workers' = Append(ws, NewWorker)
         /\ fpc' = "await"
         /\ result' = NoImage
    ELSE /\ attempt' = a
         /\ workers' = ws
         /\ fpc' = "done"
         /\ result' = NoImage

\* the loop entered without the cache being asked first
FetchStartNoCache(r) ==
    /\ fpc \in {"idle", "done", "cancelled"}
    /\ request' = r
    /\ sleeps' = <<>>
    /\ retrieved' = NoRetrieval
    /\ hit' = FALSE
    /\ EnterAttempt(0, <<>>)
    /\ UNCHANGED <<cacheVars, nonFetch>>

\* fetch_satellite_image up to its first await: the cache is asked, a hit is
\* returned, a miss enters the retry loop
FetchStart(r) ==
    /\ fpc \in {"idle", "done", "cancelled"}
    /\ request' = r
    /\ sleeps' = <<>>
    /\ retrieved' = NoRetrieval
    /\ \E now \in Nows :
          LET got == ImageCache_get(Cache, CacheKeyDict(r), now)
          IN /\ clock' = now
             /\ files' = got.cache.files
             /\ access_times' = got.cache.access_times
             /\ last_access' = LastAccessAfter(got.cache, IF got.value # NoImage THEN {r} ELSE {}, now)
             /\ evicted' = {}
             /\ IF got.value # NoImage
                THEN /\ hit' = TRUE
                     /\ result' = got.value
                     /\ fpc' = "done"
                     /\ attempt' = 0
                     /\ workers' = <<>>
                ELSE /\ hit' = FALSE
                     /\ EnterAttempt(0, <<>>)
    /\ UNCHANGED nonFetch

\* one layer request of a work item ends: with an image, which the scraper
\* returns at once, or with nothing, and the scraper goes to the next layer
WorkerStep(w) ==
    /\ w \in 1..Len(workers)
    /\ workers[w].state = "running"
    /\ \/ /\ ~workers[w].abandoned
          /\ workers' = [workers EXCEPT ![w].state = "image", ![w].image = ImageOf(request)]
       \/ /\ workers[w].abandoned       \* nobody awaits the image: it is dropped
          /\ workers' = [workers EXCEPT ![w].state = "image"]
       \/ /\ workers[w].layer < NumLayers
          /\ workers' = [workers EXCEPT ![w].layer = @ + 1]
       \/ /\ workers[w].layer = NumLayers
          /\ workers' = [workers EXCEPT ![w].state = "none"]
    /\ UNCHANGED <<fpc, request, attempt, sleeps, result, hit, retrieved, cacheVars, nonFetch>>

\* _fetch_with_timeout returns: an image is stored, the cache is trimmed and the
\* image is returned; None goes straight to the next attempt.
\* cache.set writes the payload and records the access, or its write fails:
\* open() raises and nothing is written, or pickle.dump raises after open()
\* has created the file; set logs the error and the fetch goes on.
\* cache.clear_old removes the oldest entry of a cache over its size, or its
\* unlink raises and the entry stays. The image is returned in every case.
AttemptReturns ==
    /\ fpc = "await"
    /\ Current.state \in {"image", "none"}
    /\ IF Current.state = "image"
       THEN \E now \in Nows :
              \E write \in {"written", "dump raised", "open raised"} :
                 LET stored ==
                        CASE write = "written" ->
                                ImageCache_set(Cache, Current.image, CacheKeyDict(request), now)
                          [] write = "dump raised" ->
                                ImageCache_set_raises(Cache, CacheKeyDict(request))
                          [] write = "open raised" -> Cache
                 IN \E trimmed \in
                          { ImageCache_clear_old(stored) }
                             \cup (IF Len(stored.access_times) > MaxSize
                                   THEN {stored} ELSE {}) :
                       /\ clock' = now
                       /\ files' = trimmed.files
                       /\ access_times' = trimmed.access_times
                       /\ last_access' =
                             LastAccessAfter(trimmed,
                                 IF write = "written" THEN {request} ELSE {}, now)
                       /\ evicted' = {r \in Requests :
                                         RequestKey[r] \in DOMAIN stored.files
                                                              \ DOMAIN trimmed.files}
                       /\ result' = Current.image
                       /\ fpc' = "done"
                       /\ UNCHANGED <<attempt, workers>>
       ELSE /\ EnterAttempt(attempt + 1, workers)
            /\ UNCHANGED cacheVars
    /\ UNCHANGED <<request, sleeps, hit, retrieved, nonFetch>>

\* asyncio.wait_for gives up on a work item that is still running: the item is
\* left to itself; the fetch sleeps 2 ** attempt seconds unless this was the
\* last attempt, after which the loop ends.
\* When the work item has ended and the timeout is over before the coroutine
\* runs again, the outcome depends on the interpreter: asyncio.wait_for up to
\* Python 3.11 finds its future done and returns the result, as AttemptReturns
\* says; from Python 3.12 on wait_for is built on asyncio.timeout and raises
\* TimeoutError all the same, so what the work item returned is dropped.
AttemptTimeout ==
    /\ fpc = "await"
    /\ Current.state \in {"running", "image", "none"}
    /\ IF attempt < MaxRetries - 1
       THEN /\ workers' = [workers EXCEPT ![Len(workers)].abandoned = TRUE]
            /\ fpc' = "sleep"
            /\ UNCHANGED <<attempt, result>>
       ELSE /\ workers' = [workers EXCEPT ![Len(workers)].abandoned = TRUE]
            /\ fpc' = "done"
            /\ attempt' = attempt + 1
            /\ result' = NoImage
    /\ UNCHANGED <<request, sleeps, hit, retrieved, cacheVars, nonFetch>>

\* the backoff sleep ends and the next attempt starts
SleepDone ==
    /\ fpc = "sleep"
    /\ sleeps' = Append(sleeps, 2 ^ attempt)
    /\ EnterAttempt(attempt + 1, workers)
    /\ UNCHANGED <<request, hit, retrieved, cacheVars, nonFetch>>

\* task.cancel() on the task running fetch_satellite_image while it is
\* suspended, in wait_for or in the backoff sleep.
\* The CancelledError is raised in the coroutine: it is not an Exception, no
\* handler of the fetch catches it and the call ends with it; the work item
\* in the executor cannot be stopped and goes on, its result is dropped.
\* When the work item has already ended and the coroutine has not run again,
\* the outcome depends on the interpreter: asyncio.wait_for up to Python 3.11
\* catches the CancelledError, finds its future done and returns the result,
\* so the request is lost and the fetch goes on as AttemptReturns says;
\* from Python 3.12 on wait_for lets the CancelledError through.
Cancel ==
    /\ fpc \in {"await", "sleep"}
    /\ \/ /\ workers' = [workers EXCEPT ![Len(workers)].abandoned = TRUE]
          /\ fpc' = "cancelled"
          /\ result' = NoImage
          /\ UNCHANGED <<request, attempt, sleeps, hit, retrieved, cacheVars, nonFetch>>
       \/ AttemptReturns

\* ImageCache.get called directly, between two fetches
CacheGetDirect(r) ==
    /\ fpc \in {"idle", "done", "cancelled"}
    /\ \E kwargs \in KwOrders(r), now \in Nows :
          LET got == ImageCache_get(Cache, kwargs, now)
          IN /\ clock' = now
             /\ files' = got.cache.files
             /\ access_times' = got.cache.access_times
             /\ last_access' = LastAccessAfter(got.cache, IF got.value # NoImage THEN {r} ELSE {}, now)
             /\ evicted' = {}
             /\ retrieved' = [kwargs |-> kwargs, value |-> got.value]
    /\ fpc' = "idle"
    /\ attempt' = 0 /\ workers' = <<>> /\ sleeps' = <<>> /\ result' = NoImage /\ hit' = FALSE
    /\ request' = r
    /\ UNCHANGED nonFetch

\* the requests whose images are put into the cache directly
FaultRequests ==
    { [product |-> "MOD09GA", date |-> "2024-01-15"],
      [product |-> "MOD09GA", date |-> "2024-01-16"],
      [product |-> "VNP09",   date |-> "2024-01-15"] }

\* ImageCache.set called directly: the payload is written and the access time
\* recorded, or the write fails after the file was created
CacheSetDirect(r) ==
    /\ fpc \in {"idle", "done", "cancelled"}
    /\ \E now \in Nows :
          \/ LET stored == ImageCache_set(Cache, ImageOf(r), CacheKeyDict(r), now)
             IN /\ clock' = now
                /\ files' = stored.files
                /\ access_times' = stored.access_times
                /\ last_access' = LastAccessAfter(stored, {r}, now)
          \/ LET stored == ImageCache_set_raises(Cache, CacheKeyDict(r))
             IN /\ clock' = now
                /\ files' = stored.files
                /\ access_times' = stored.access_times
                /\ last_access' = LastAccessAfter(stored, {}, now)
    /\ evicted' = {}
    /\ UNCHANGED <<fetchVars, nonFetch>>

\* ImageCache.clear_old called directly: the oldest entry is removed, or
\* unlink raises and the entry stays
CacheClearOldDirect ==
    /\ fpc \in {"idle", "done", "cancelled"}
    /\ \/ LET trimmed == ImageCache_clear_old(Cache)
          IN /\ files' = trimmed.files
             /\ access_times' = trimmed.access_times
             /\ last_access' = LastAccessAfter(trimmed, {}, clock)
             /\ evicted' = {r \in Requests :
                               RequestKey[r] \in DOMAIN files \ DOMAIN trimmed.files}
       \/ /\ Len(access_times) > MaxSize
          /\ evicted' = {}
          /\ UNCHANGED <<files, access_times, last_access>>
    /\ UNCHANGED <<clock, fetchVars, nonFetch>>

\* the process is started again over its cache directory: ImageCache.__init__
\* keeps the directory (mkdir(exist_ok=True)) and starts with access_times = {}
Restart ==
    /\ fpc \in {"idle", "done", "cancelled"}
    /\ access_times' = <<>>
    /\ evicted' = {}
    /\ UNCHANGED <<files, clock, last_access, fetchVars, nonFetch>>

InitFetch ==
    /\ CacheEmpty
    /\ FetchIdle
    /\ StoreIdle
    /\ FeedIdle
    /\ ClientIdle
    /\ ApiIdle
    /\ PureIdle /\ ppc = "done" /\ fn = "none"
    /\ AlertIdle

\* the fetcher serving requests for a product of three layers and one of one
NextFetch ==
    \/ \E r \in FetchRequests : FetchStart(r)
    \/ \E w \in 1..Len(workers) : WorkerStep(w)
    \/ AttemptReturns
    \/ AttemptTimeout
    \/ SleepDone
    \/ \E r \in FetchRequests : CacheGetDirect(r)

SpecFetch == InitFetch /\ [][NextFetch]_vars

\* the fetcher serving three requests, more than the cache holds
NextCache ==
    \/ \E r \in CacheRequests : FetchStart(r)
    \/ \E w \in 1..Len(workers) : WorkerStep(w)
    \/ AttemptReturns
    \/ AttemptTimeout
    \/ SleepDone
    \/ \E r \in CacheRequests : CacheGetDirect(r)

SpecCache == InitFetch /\ [][NextCache]_vars

\* the fetcher serving requests that may be cancelled
NextCancel ==
    \/ \E r \in FetchRequests : FetchStart(r)
    \/ \E w \in 1..Len(workers) : WorkerStep(w)
    \/ AttemptReturns
    \/ AttemptTimeout
    \/ SleepDone
    \/ Cancel

SpecCancel == InitFetch /\ [][NextCancel]_vars

\* the cache called directly, with payload writes and deletions that may
\* fail, in a process that may be started again
NextFaults ==
    \/ \E r \in FaultRequests : CacheGetDirect(r)
    \/ \E r \in FaultRequests : CacheSetDirect(r)
    \/ CacheClearOldDirect
    \/ Restart

SpecFaults == InitFetch /\ [][NextFaults]_vars

-----------------------------------------------------------------------------
(* The pure helpers as a state machine: Init draws the call, the action     *)
(* applies it                                                               *)

InitPure ==
    /\ ppc = "call"
    /\ valid = "none"
    /\ normalized = -1
    /\ fires_out = <<>>
    /\ fn \in {"validate_coordinates", "_normalize_confidence",
               "_parse_csv_response", "_parse_csv"}
    /\ coordinates \in (IF fn = "validate_coordinates" THEN CoordLists ELSE {<<>>})
    /\ confidence \in (IF fn = "_normalize_confidence" THEN ConfidenceInputs ELSE {PyNone})
    /\ csv_rows \in (IF fn \in {"_parse_csv_response", "_parse_csv"} THEN Tables ELSE {<<>>})
    /\ CacheEmpty
    /\ FetchIdle
    /\ StoreIdle
    /\ FeedIdle
    /\ ClientIdle
    /\ ApiIdle
    /\ AlertIdle

CallValidateCoordinates ==
    /\ ppc = "call" /\ fn = "validate_coordinates"
    /\ valid' = validate_coordinates(coordinates)
    /\ ppc' = "done"
    /\ UNCHANGED <<fn, coordinates, confidence, normalized, csv_rows, fires_out, nonPure>>

CallNormalizeConfidence ==
    /\ ppc = "call" /\ fn = "_normalize_confidence"
    /\ normalized' = _normalize_confidence(confidence)
    /\ ppc' = "done"
    /\ UNCHANGED <<fn, coordinates, valid, confidence, csv_rows, fires_out, nonPure>>

CallParseCsvResponse ==
    /\ ppc = "call" /\ fn = "_parse_csv_response"
    /\ fires_out' = _parse_csv_response(csv_rows)
    /\ ppc' = "done"
    /\ UNCHANGED <<fn, coordinates, valid, confidence, normalized, csv_rows, nonPure>>

CallParseCsv ==
    /\ ppc = "call" /\ fn = "_parse_csv"
    /\ fires_out' = _parse_csv(csv_rows)
    /\ ppc' = "done"
    /\ UNCHANGED <<fn, coordinates, valid, confidence, normalized, csv_rows, nonPure>>

NextPure ==
    \/ CallValidateCoordinates
    \/ CallNormalizeConfidence
    \/ CallParseCsvResponse
    \/ CallParseCsv

SpecPure == InitPure /\ [][NextPure]_vars

-----------------------------------------------------------------------------
(* FireHistoryTracker: the SQLite history store *)

\* datetime.isoformat(): the fields down to the second have a fixed width and
\* are one number here; the fraction is printed only when it is not zero. An
\* instant is counted in half hours from the creation of the store (an event
\* may be older than the store) and its text is the list of its fields.
isoformat(t) == IF t % 2 = 0 THEN <<t \div 2>> ELSE <<t \div 2, 500000>>

\* SQLite's order of two TEXT values: memcmp, a proper prefix is the lesser
TextLess(a, b) ==
    \E i \in 1..(Len(a) + 1) :
        /\ i <= Len(b)
        /\ \A j \in 1..(i - 1) : a[j] = b[j]
        /\ (i <= Len(a) => a[i] < b[i])

\* the events of the model, made at instant t: one without a timestamp, one
\* stamped an hour and a half earlier, one whose latitude is None, and a list
\* item that is not a dict
EventSamples(t) ==
    { [latitude |-> PyNum(35), confidence |-> 95],
      [timestamp |-> isoformat(t - 3), latitude |-> PyNum(35), confidence |-> 30],
      [timestamp |-> isoformat(t), latitude |-> PyNone, confidence |-> 95],
      PyNone }

Batches(t) == UNION {[1..n -> EventSamples(t)] : n \in 0..MaxBatch}

IsDict(e) == "type" \notin DOMAIN e

\* the tuple add_detections_batch prepares for an event: detection.get(key,
\* default) for each column
Record(e, t, center_coordinates) ==
    [detection_time |-> IF "timestamp" \in DOMAIN e THEN e.timestamp ELSE isoformat(t),
     latitude       |-> IF "latitude" \in DOMAIN e THEN e.latitude ELSE PyNum(0),
     longitude      |-> IF "longitude" \in DOMAIN e THEN e.longitude ELSE 0,
     confidence     |-> IF "confidence" \in DOMAIN e THEN e.confidence ELSE 0,
     center_lat     |-> center_coordinates[1],
     center_lon     |-> center_coordinates[2]]

\* a column without a value
NULL == <<>>

\* the row INSERT makes of the i-th tuple; batch (the first id of the call's
\* rows), pos and size record the call that inserted it
Row(i) ==
    [id             |-> sqlite_sequence + Len(txn) + 1,
     detection_time |-> records[i].detection_time,
     latitude       |-> records[i].latitude.n,
     longitude      |-> records[i].longitude,
     confidence     |-> records[i].confidence,
     center_lat     |-> records[i].center_lat,
     center_lon     |-> records[i].center_lon,
     alert_sent     |-> 0,
     alert_time     |-> NULL,
     batch          |-> sqlite_sequence + 1,
     pos            |-> i,
     size           |-> Len(records)]

\* add_detections_batch up to executemany: the connection is opened and the
\* tuples are prepared; an item that is not a dict raises AttributeError
AddDetectionsBatch(events, center_coordinates) ==
    /\ spc \in {"idle", "returned", "raised"}
    /\ sqlite_sequence + Len(events) <= MaxStored
    /\ detections' = events
    /\ txn' = <<>>
    /\ last_insert_rowid' = 0
    /\ record_ids' = <<>>
    /\ recent' = NoQuery
    /\ outcome' = NoOutcome
    /\ IF \E i \in 1..Len(events) : ~IsDict(events[i])
       THEN /\ records' = <<>>
            /\ spc' = "raised"
       ELSE /\ records' = [i \in 1..Len(events) |->
                           Record(events[i], store_clock, center_coordinates)]
            /\ spc' = "executemany"
    /\ UNCHANGED <<table_fires, sqlite_sequence, store_clock, nonStore>>

\* an executemany whose rows are committed one by one
ExecuteManyRowAutocommit ==
    /\ spc = "executemany"
    /\ Len(txn) < Len(records)
    /\ IF records[Len(txn) + 1].latitude = PyNone
       THEN /\ txn' = <<>>
            /\ spc' = "raised"
            /\ UNCHANGED <<table_fires, last_insert_rowid>>
       ELSE /\ txn' = Append(txn, Row(Len(txn) + 1))
            /\ table_fires' = Append(table_fires, Row(Len(txn) + 1))
            /\ last_insert_rowid' = Row(Len(txn) + 1).id
            /\ spc' = spc
    /\ UNCHANGED <<sqlite_sequence, detections, records, record_ids, store_clock, recent,
                   outcome, nonStore>>

\* executemany inserts the next tuple into the open transaction; a NULL in a
\* NOT NULL column, or an I/O error, raises: the with block rolls back
ExecuteManyRow ==
    /\ spc = "executemany"
    /\ Len(txn) < Len(records)
    /\ \/ /\ records[Len(txn) + 1].latitude # PyNone
          /\ txn' = Append(txn, Row(Len(txn) + 1))
          /\ last_insert_rowid' = Row(Len(txn) + 1).id
          /\ spc' = spc
       \/ /\ txn' = <<>>
          /\ spc' = "raised"
          /\ UNCHANGED last_insert_rowid
    /\ UNCHANGED <<table_fires, sqlite_sequence, detections, records, record_ids, store_clock,
                   recent, outcome, nonStore>>

\* conn.commit(): the rows of the transaction become the table's; a commit
\* that fails raises and the with block rolls back
Commit ==
    /\ spc = "executemany"
    /\ Len(txn) = Len(records)
    /\ \/ /\ table_fires' = table_fires \o txn
          /\ sqlite_sequence' = sqlite_sequence + Len(txn)
          /\ spc' = "committed"
       \/ /\ spc' = "raised"
          /\ UNCHANGED <<table_fires, sqlite_sequence>>
    /\ txn' = <<>>
    /\ UNCHANGED <<last_insert_rowid, detections, records, record_ids, store_clock, recent,
                   outcome, nonStore>>

\* a list of ids computed from SELECT MAX(id) FROM fires
ReturnIdsFromMaxId ==
    /\ spc = "committed"
    /\ record_ids' = [k \in 1..Len(records) |-> sqlite_sequence - Len(records) + k]
    /\ spc' = "returned"
    /\ UNCHANGED <<table_fires, sqlite_sequence, txn, last_insert_rowid, detections, records,
                   store_clock, recent, outcome, nonStore>>

\* SELECT last_insert_rowid() and the list of ids computed from it
ReturnIds ==
    /\ spc = "committed"
    /\ record_ids' = [k \in 1..Len(records) |-> last_insert_rowid - Len(records) + k]
    /\ spc' = "returned"
    /\ UNCHANGED <<table_fires, sqlite_sequence, txn, last_insert_rowid, detections, records,
                   store_clock, recent, outcome, nonStore>>

\* the row add_detection's INSERT makes of its tuple: a call of one row
InsertedRow(rec) ==
    [id             |-> sqlite_sequence + 1,
     detection_time |-> rec.detection_time,
     latitude       |-> rec.latitude.n,
     longitude      |-> rec.longitude,
     confidence     |-> rec.confidence,
     center_lat     |-> rec.center_lat,
     center_lon     |-> rec.center_lon,
     alert_sent     |-> 0,
     alert_time     |-> NULL,
     batch          |-> sqlite_sequence + 1,
     pos            |-> 1,
     size           |-> 1]

\* add_detection: the tuple is prepared with detection.get(key, default), one
\* INSERT is executed, cursor.lastrowid is read, the row is committed and the
\* id is returned; an item that is not a dict, a NULL in a NOT NULL column, an
\* I/O error or a commit that fails raises and nothing is stored
AddDetection(detection, center_coordinates) ==
    /\ spc \in {"idle", "returned", "raised"}
    /\ sqlite_sequence + 1 <= MaxStored
    /\ detections' = <<detection>>
    /\ txn' = <<>>
    /\ recent' = NoQuery
    /\ outcome' = NoOutcome
    /\ IF ~IsDict(detection)
       THEN /\ records' = <<>>
            /\ record_ids' = <<>>
            /\ last_insert_rowid' = 0
            /\ spc' = "raised"
            /\ UNCHANGED <<table_fires, sqlite_sequence>>
       ELSE LET rec == Record(detection, store_clock, center_coordinates)
            IN /\ records' = <<rec>>
               /\ \/ /\ rec.latitude # PyNone
                     /\ table_fires' = Append(table_fires, InsertedRow(rec))
                     /\ sqlite_sequence' = sqlite_sequence + 1
                     /\ last_insert_rowid' = sqlite_sequence + 1
                     /\ record_ids' = <<sqlite_sequence + 1>>
                     /\ spc' = "returned"
                  \/ /\ record_ids' = <<>>
                     /\ last_insert_rowid' = 0
                     /\ spc' = "raised"
                     /\ UNCHANGED <<table_fires, sqlite_sequence>>
    /\ UNCHANGED <<store_clock, nonStore>>

\* add_detection run by another writer on a connection of its own, while no
\* transaction of this process holds the database: its row takes the next id
\* and is committed; last_insert_rowid() of this process's connection is kept
\* per connection and is left alone. pos = 0 marks the row as another writer's.
ConcurrentAddDetection(detection, center_coordinates) ==
    /\ spc # "executemany"
    /\ sqlite_sequence + 1 <= MaxStored
    /\ IsDict(detection)
    /\ LET rec == Record(detection, store_clock, center_coordinates)
       IN /\ rec.latitude # PyNone
          /\ table_fires' = Append(table_fires, [InsertedRow(rec) EXCEPT !.pos = 0])
    /\ sqlite_sequence' = sqlite_sequence + 1
    /\ UNCHANGED <<txn, last_insert_rowid, spc, detections, records, record_ids,
                   store_clock, recent, outcome, nonStore>>

\* the locals of a call that has ended are released
NoCall ==
    /\ spc' = "idle"
    /\ detections' = <<>>
    /\ records' = <<>>
    /\ record_ids' = <<>>
    /\ last_insert_rowid' = 0

\* time passes between two calls; nothing reads the clock inside a call
\* after the tuples are prepared
Tick ==
    /\ spc \in {"idle", "returned", "raised"}
    /\ store_clock < MaxNow
    /\ store_clock' = store_clock + 1
    /\ recent' = NoQuery
    /\ outcome' = NoOutcome
    /\ NoCall
    /\ UNCHANGED <<table_fires, sqlite_sequence, txn, nonStore>>

\* the order ORDER BY detection_time DESC puts two rows in; SQL leaves the
\* order of rows with equal detection_time to the query plan: by rowid, as a
\* scan finds them, or by rowid backwards, as the index read backwards does
Precedes(a, b, tie) ==
    \/ TextLess(b.detection_time, a.detection_time)
    \/ /\ a.detection_time = b.detection_time
       /\ IF tie = "rowid" THEN a.id < b.id ELSE a.id > b.id

\* the rows of a set in that order
OrderBy(rows, tie) ==
    [k \in 1..Cardinality(rows) |->
        CHOOSE r \in rows : Cardinality({q \in rows : Precedes(q, r, tie)}) = k - 1]

Matching(rows, t, hours, min_confidence) ==
    {rows[i] : i \in {j \in 1..Len(rows) :
        /\ ~TextLess(rows[j].detection_time, isoformat(t - 2 * hours))
        /\ rows[j].confidence >= min_confidence}}

\* get_recent_detections: WHERE detection_time >= cutoff AND confidence >=
\* min_confidence ORDER BY detection_time DESC LIMIT limit, cutoff being the
\* text of now - hours
get_recent_detections(rows, t, hours, min_confidence, limit, tie) ==
    LET sorted == OrderBy(Matching(rows, t, hours, min_confidence), tie)
        n      == IF limit < Len(sorted) THEN limit ELSE Len(sorted)
    IN SubSeq(sorted, 1, n)

\* the calls of get_recent_detections in the model: the last hour, the last
\* day, the default threshold of 0.5, and a limit of one row
QuerySamples ==
    { [hours |-> 1,  min_confidence |-> 0,  limit |-> 1000],
      [hours |-> 24, min_confidence |-> 0,  limit |-> 1000],
      [hours |-> 24, min_confidence |-> 50, limit |-> 1000],
      [hours |-> 24, min_confidence |-> 0,  limit |-> 1] }

\* a get_recent_detections call, between two writes: it returns the rows of
\* the SELECT, or, when the database raises (it is locked by a writer, or
\* cannot be read), logs the error and returns the empty list
GetRecentDetections(hours, min_confidence, limit) ==
    /\ spc \in {"idle", "returned", "raised"}
    /\ NoCall
    /\ \/ \E tie \in {"rowid", "rowid desc"} :
             recent' = [hours |-> hours, min_confidence |-> min_confidence,
                        limit |-> limit, at |-> store_clock,
                        rows |-> get_recent_detections(table_fires, store_clock, hours,
                                                       min_confidence, limit, tie)]
       \/ recent' = [hours |-> hours, min_confidence |-> min_confidence,
                     limit |-> limit, at |-> store_clock, rows |-> <<>>]
    /\ outcome' = NoOutcome
    /\ UNCHANGED <<table_fires, sqlite_sequence, txn, store_clock, nonStore>>

InitStore ==
    /\ StoreIdle
    /\ FeedIdle
    /\ CacheEmpty
    /\ FetchIdle
    /\ ClientIdle
    /\ ApiIdle
    /\ PureIdle /\ ppc = "done" /\ fn = "none"
    /\ AlertIdle

NextStore ==
    \/ \E events \in Batches(store_clock) : AddDetectionsBatch(events, <<35, -110>>)
    \/ ExecuteManyRow
    \/ Commit
    \/ ReturnIds
    \/ Tick
    \/ \E q \in QuerySamples : GetRecentDetections(q.hours, q.min_confidence, q.limit)

SpecStore == InitStore /\ [][NextStore]_vars

-----------------------------------------------------------------------------
(* FireHistoryTracker: queries by location, alert marks and the cleanup *)

\* DatabaseConfig.max_history_days
max_history_days == 365

\* half hours in a day, the unit of the store's clock
HalfHoursPerDay == 48

\* FireHistoryTracker._haversine_distance from the centre (35, -110) of the
\* queries to the points of the model, in metres (a radius is in metres too)
TrackerDistances ==
    (<<35, -110>> :> 0 @@ <<36, -110>> :> 111195 @@ <<36, -109>> :> 143383
        @@ <<37, -110>> :> 222390)

tracker_haversine_distance(lat1, lon1, lat2, lon2) == TrackerDistances[<<lat2, lon2>>]

\* center BETWEEN x - radius_km / 111.0 AND x + radius_km / 111.0, degrees
\* being whole numbers and the radius in metres
Between(center, x, radius_km) ==
    /\ (x - center) * 111000 <= radius_km
    /\ (center - x) * 111000 <= radius_km

\* get_detections_by_location: the rows SELECT gives (time window and box
\* around the stored search centre, latest first), then those within the
\* radius by _haversine_distance to the row's own position
get_detections_by_location(rows, t, latitude, longitude, radius_km, days, tie) ==
    LET selected == {rows[i] : i \in {j \in 1..Len(rows) :
                        /\ ~TextLess(rows[j].detection_time,
                                     isoformat(t - HalfHoursPerDay * days))
                        /\ Between(rows[j].center_lat, latitude, radius_km)
                        /\ Between(rows[j].center_lon, longitude, radius_km)}}
        fetched  == OrderBy(selected, tie)
        Near(record) == tracker_haversine_distance(latitude, longitude, record.latitude,
                                                   record.longitude) <= radius_km
    IN SelectSeq(fetched, Near)

\* the location queries of the model: around (35, -110), over the default 30
\* days, with a radius of 120 km, of exactly the distance to (36, -110), and
\* of 111 km
LocationQueries ==
    { [latitude |-> 35, longitude |-> -110, radius_km |-> r, days |-> 30] :
          r \in {120000, 111195, 111000} }

\* a get_detections_by_location call: it returns the filtered rows, or, when
\* the database raises, logs the error and returns the empty list
GetDetectionsByLocation(q) ==
    /\ spc \in {"idle", "returned", "raised"}
    /\ NoCall
    /\ \/ \E tie \in {"rowid", "rowid desc"} :
             outcome' = [op |-> "get_detections_by_location",
                         latitude |-> q.latitude, longitude |-> q.longitude,
                         radius_km |-> q.radius_km, days |-> q.days, at |-> store_clock,
                         rows |-> get_detections_by_location(table_fires, store_clock,
                                      q.latitude, q.longitude, q.radius_km, q.days, tie)]
       \/ outcome' = [op |-> "get_detections_by_location",
                      latitude |-> q.latitude, longitude |-> q.longitude,
                      radius_km |-> q.radius_km, days |-> q.days, at |-> store_clock,
                      rows |-> <<>>]
    /\ recent' = NoQuery
    /\ UNCHANGED <<table_fires, sqlite_sequence, txn, store_clock, nonStore>>

\* UPDATE fires SET alert_sent = 1, alert_time = now WHERE id = detection_id
mark_alert_sent(rows, t, detection_id) ==
    [i \in 1..Len(rows) |->
        IF rows[i].id = detection_id
        THEN [rows[i] EXCEPT !.alert_sent = 1, !.alert_time = isoformat(t)]
        ELSE rows[i]]

\* mark_alert_sent returns whether the UPDATE changed a row; when the
\* database raises, the transaction is rolled back, the error is logged and
\* the call returns False
MarkAlertSent(detection_id) ==
    /\ spc \in {"idle", "returned", "raised"}
    /\ NoCall
    /\ \/ /\ table_fires' = mark_alert_sent(table_fires, store_clock, detection_id)
          /\ outcome' = [op |-> "mark_alert_sent", detection_id |-> detection_id,
                         result |-> \E i \in 1..Len(table_fires) :
                                        table_fires[i].id = detection_id,
                         before |-> table_fires]
       \/ /\ table_fires' = table_fires
          /\ outcome' = [op |-> "mark_alert_sent", detection_id |-> detection_id,
                         result |-> FALSE, before |-> table_fires]
    /\ recent' = NoQuery
    /\ UNCHANGED <<sqlite_sequence, txn, store_clock, nonStore>>

\* DELETE FROM fires WHERE detection_time < cutoff, cutoff being the text of
\* now - max_history_days: the rows that stay
cleanup_old_records(rows, t) ==
    LET cutoff_time == isoformat(t - HalfHoursPerDay * max_history_days)
        Kept(row) == ~TextLess(row.detection_time, cutoff_time)
    IN SelectSeq(rows, Kept)

\* cleanup_old_records returns the number of rows the DELETE removed; when
\* the database raises, the transaction is rolled back, the error is logged
\* and the call returns 0
CleanupOldRecords ==
    /\ spc \in {"idle", "returned", "raised"}
    /\ NoCall
    /\ \/ /\ table_fires' = cleanup_old_records(table_fires, store_clock)
          /\ outcome' = [op |-> "cleanup_old_records", at |-> store_clock,
                         result |-> Len(table_fires)
                                       - Len(cleanup_old_records(table_fires, store_clock)),
                         before |-> table_fires]
       \/ /\ table_fires' = table_fires
          /\ outcome' = [op |-> "cleanup_old_records", at |-> store_clock,
                         result |-> 0, before |-> table_fires]
    /\ recent' = NoQuery
    /\ UNCHANGED <<sqlite_sequence, txn, store_clock, nonStore>>

\* an event of the history at a position, left for the store to stamp
Found(lat, lon) == [latitude |-> PyNum(lat), longitude |-> lon, confidence |-> 90]

\* an event of the history at a position, stamped at instant t
Stamped(lat, lon, t) ==
    [timestamp |-> isoformat(t), latitude |-> PyNum(lat), longitude |-> lon,
     confidence |-> 90]

\* the batches stored before the location queries: a search around
\* (35, -110) that found a fire 111 km north and one at the corner of the box;
\* a search around (37, -110) that found the first fire again; a search
\* around (36, -109) that found a fire at (35, -110); two old fires, exactly
\* 30 days old and half an hour older
LocationBatches(t) ==
    { [events |-> <<Found(36, -110), Found(36, -109)>>,
       center |-> <<35, -110>>],
      [events |-> <<Found(36, -110)>>, center |-> <<37, -110>>],
      [events |-> <<Found(35, -110)>>, center |-> <<36, -109>>],
      [events |-> <<Stamped(35, -110, t - HalfHoursPerDay * 30),
                    Stamped(35, -110, t - HalfHoursPerDay * 30 - 1)>>,
       center |-> <<35, -110>>] }

NextLocation ==
    \/ \E b \in LocationBatches(store_clock) : AddDetectionsBatch(b.events, b.center)
    \/ ExecuteManyRow
    \/ Commit
    \/ ReturnIds
    \/ Tick
    \/ \E q \in LocationQueries : GetDetectionsByLocation(q)

SpecLocation == InitStore /\ [][NextLocation]_vars

\* the batches stored before alert marks and cleanups: a fire of now, and
\* two old fires, exactly max_history_days old and half an hour older
RetentionBatches(t) ==
    { [events |-> <<Found(35, -110)>>, center |-> <<35, -110>>],
      [events |-> <<Stamped(35, -110, t - HalfHoursPerDay * max_history_days),
                    Stamped(35, -110, t - HalfHoursPerDay * max_history_days - 1)>>,
       center |-> <<35, -110>>] }

NextRetention ==
    \/ \E b \in RetentionBatches(store_clock) : AddDetectionsBatch(b.events, b.center)
    \/ ExecuteManyRow
    \/ Commit
    \/ ReturnIds
    \/ Tick
    \/ \E detection_id \in 1..(sqlite_sequence + 1) : MarkAlertSent(detection_id)
    \/ CleanupOldRecords

SpecRetention == InitStore /\ [][NextRetention]_vars

\* the events handed to the store at its ingestion boundary: a fire inside
\* both ranges, one north of the pole and east of the date line, and one that
\* carries no coordinates
IngestSamples ==
    { Found(35, -110), Found(91, 181), [confidence |-> 90] }

IngestBatches == UNION {[1..n -> IngestSamples] : n \in 0..MaxBatch}

NextIngest ==
    \/ \E events \in IngestBatches : AddDetectionsBatch(events, <<35, -110>>)
    \/ ExecuteManyRow
    \/ Commit
    \/ ReturnIds
    \/ Tick
    \/ \E detection \in IngestSamples : AddDetection(detection, <<35, -110>>)

SpecIngest == InitStore /\ [][NextIngest]_vars

\* what another writer stores: a fire of now and one older than the history
\* is kept
WriterSamples(t) ==
    { Found(35, -110), Stamped(35, -110, t - HalfHoursPerDay * max_history_days - 1) }

\* the store written by this process and by another one, with cleanups
NextWriters ==
    \/ \E b \in RetentionBatches(store_clock) : AddDetectionsBatch(b.events, b.center)
    \/ ExecuteManyRow
    \/ Commit
    \/ ReturnIds
    \/ Tick
    \/ CleanupOldRecords
    \/ \E detection \in WriterSamples(store_clock) :
          ConcurrentAddDetection(detection, <<35, -110>>)

SpecWriters == InitStore /\ [][NextWriters]_vars

-----------------------------------------------------------------------------
(* NASAFIRMSAPIClient: the fire feed asked for one region and for the hotspots *)

\* the hotspots of get_global_fires, in the order of its list
hotspots ==
    << [name |-> "Western US",     lat |-> 40,  lon |-> -120, radius |-> 500],
       [name |-> "Amazon Basin",   lat |-> -5,  lon |-> -60,  radius |-> 800],
       [name |-> "Australia",      lat |-> -25, lon |-> 135,  radius |-> 800],
       [name |-> "Indonesia",      lat |-> -2,  lon |-> 118,  radius |-> 600],
       [name |-> "Central Africa", lat |-> 0,   lon |-> 20,   radius |-> 800],
       [name |-> "Siberia",        lat |-> 60,  lon |-> 100,  radius |-> 1000],
       [name |-> "Mediterranean",  lat |-> 40,  lon |-> 10,   radius |-> 500],
       [name |-> "India",          lat |-> 22,  lon |-> 80,   radius |-> 600] >>

\* _haversine_distance from each hotspot to the points (35, -110) and
\* (36, -110) of the feed rows, in whole kilometres
HotspotDistances ==
    << (35 :> 1041  @@ 36 :> 981),
       (35 :> 6857  @@ 36 :> 6913),
       (35 :> 13764 @@ 36 :> 13781),
       (35 :> 13854 @@ 36 :> 13806),
       (35 :> 13540 @@ 36 :> 13491),
       (35 :> 9099  @@ 36 :> 8992),
       (35 :> 9657  @@ 36 :> 9574),
       (35 :> 13589 @@ 36 :> 13480) >>

_haversine_distance(lat1, lon1, lat2, lon2) ==
    LET h == CHOOSE i \in 1..Len(hotspots) :
                 hotspots[i].lat = lat1 /\ hotspots[i].lon = lon1
    IN HotspotDistances[h][lat2]

\* what session.get and raise_for_status give for one region: a
\* RequestException (no connection, timeout, HTTP error status) or a response
\* whose text is a table
ResponseSamples ==
    { [raised |-> TRUE,  rows |-> <<>>],
      [raised |-> FALSE, rows |-> <<>>],
      [raised |-> FALSE, rows |-> << <<"35.0", "-110.0", "600", "h">> >>],
      [raised |-> FALSE, rows |-> << <<"35.0", "-110.0", "600", "h">>,
                                     <<"36.0", "-110.0", "85", "85">> >>],
      [raised |-> FALSE, rows |-> << <<"35.0", "-110.0", "600", "h">>,
                                     <<"abc", "-110.0", "600", "h">>,
                                     <<"36.0", "-110.0", "85", "85">> >>] }

\* fetch_fires_in_region: [] on a RequestException, else the parsed fires,
\* each with its distance from the centre
fetch_fires_in_region(lat, lon, response) ==
    IF response.raised THEN <<>>
    ELSE LET fires == _parse_csv_response(response.rows)
         IN [i \in 1..Len(fires) |->
                [latitude    |-> fires[i].latitude,
                 longitude   |-> fires[i].longitude,
                 frp         |-> fires[i].frp,
                 confidence  |-> fires[i].confidence,
                 distance_km |-> _haversine_distance(lat, lon, fires[i].latitude,
                                                     fires[i].longitude),
                 region      |-> ""]]

\* the area of the URL fetch_fires_in_region asks the feed for:
\* {lon},{lat},{radius_km}, the radius being min(radius_km, 1000)
AreaOfUrl(lat, lon, radius_km) ==
    [lon |-> lon, lat |-> lat,
     radius_km |-> IF 1000 < radius_km THEN 1000 ELSE radius_km]

\* the radii, in kilometres, callers ask fetch_fires_in_region for
RadiusSamples == {-5, 0, 1, 200, 1000, 1001, 5000}

\* fire['region'] = hotspot['name'] for the fires of one hotspot
InRegion(fires, name) == [i \in 1..Len(fires) |-> [fires[i] EXCEPT !.region = name]]

\* one round of the loop of get_global_fires; the call returns after the last
GlobalFetchHotspot(response) ==
    /\ gpc \in {"idle", "loop"}
    /\ Len(responses) < MaxHotspots
    /\ LET hotspot == hotspots[Len(responses) + 1]
           fires   == fetch_fires_in_region(hotspot.lat, hotspot.lon, response)
       IN /\ all_fires' = all_fires \o InRegion(fires, hotspot.name)
          /\ urls' = Append(urls, AreaOfUrl(hotspot.lat, hotspot.lon, hotspot.radius))
    /\ responses' = Append(responses, response)
    /\ gpc' = IF Len(responses) + 1 = MaxHotspots THEN "done" ELSE "loop"
    /\ UNCHANGED nonFeed

\* fetch_fires_in_region called for one region
FetchFiresInRegion(radius_km, response) ==
    /\ gpc = "idle"
    /\ urls' = <<AreaOfUrl(hotspots[1].lat, hotspots[1].lon, radius_km)>>
    /\ all_fires' = fetch_fires_in_region(hotspots[1].lat, hotspots[1].lon, response)
    /\ responses' = <<response>>
    /\ gpc' = "single"
    /\ UNCHANGED nonFeed

InitFeed ==
    /\ FeedIdle
    /\ StoreIdle
    /\ CacheEmpty
    /\ FetchIdle
    /\ ClientIdle
    /\ ApiIdle
    /\ PureIdle /\ ppc = "done" /\ fn = "none"
    /\ AlertIdle

NextFeed ==
    \/ \E response \in ResponseSamples : GlobalFetchHotspot(response)
    \/ \E radius_km \in RadiusSamples, response \in ResponseSamples :
          FetchFiresInRegion(radius_km, response)

SpecFeed == InitFeed /\ [][NextFeed]_vars

-----------------------------------------------------------------------------
(* SatelliteClient: detections sorted into confidence tiers *)

\* A confidence of the client is a Python float.  Those met here lie at or
\* next to a whole number of hundredths: the double nearest to h/100
\* (ulp = 0), the double just under it (ulp = -1) or just over it (ulp = 1).
Float(h) == [h |-> h, ulp |-> 0]

FloatLess(a, b) == a.h < b.h \/ (a.h = b.h /\ a.ulp < b.ulp)

\* conf + 0.1 in double arithmetic, conf the double nearest to c/100: the c
\* whose sum is the double just under, or just over, the one nearest to
\* (c + 10)/100; every other sum is that double itself
TenthUnder == {24, 35, 36, 57, 58, 69, 70, 71, 82, 83}
TenthOver  == {2, 5, 11, 14, 19, 20, 31, 32, 33, 34}

\* the same for conf + 0.05 and (c + 5)/100
TwentiethUnder == {12, 18, 29, 35, 41}
TwentiethOver  == {1, 7, 10, 16, 17, 52, 53, 54, 55, 56, 64, 65, 66, 67, 68,
                   77, 78, 79, 80, 81, 89, 90, 91, 92, 93}

AddTenth(conf) ==
    [h |-> conf.h + 10,
     ulp |-> IF conf.h \in TenthUnder THEN -1 ELSE IF conf.h \in TenthOver THEN 1 ELSE 0]

AddTwentieth(conf) ==
    [h |-> conf.h + 5,
     ulp |-> IF conf.h \in TwentiethUnder THEN -1
             ELSE IF conf.h \in TwentiethOver THEN 1 ELSE 0]

\* the sum reported as it is, without min(0.99, ...)
Uncapped(x) == x

\* min(0.99, x): the first argument unless the second is smaller
MinCap(x) == IF FloatLess(x, Float(99)) THEN x ELSE Float(99)

\* fire.get('confidence', 0.5) and fire.get('power_mw', 0)
GetConfidence(fire) == IF "confidence" \in DOMAIN fire THEN fire.confidence ELSE Float(50)

GetPower(fire) == IF "power_mw" \in DOMAIN fire THEN fire.power_mw ELSE 0

\* the confidence a detection is reported with: raised by the power output
AdjustedConf(fire) ==
    IF GetPower(fire) > 500 THEN MinCap(AddTenth(GetConfidence(fire)))
    ELSE IF GetPower(fire) > 100 THEN MinCap(AddTwentieth(GetConfidence(fire)))
    ELSE GetConfidence(fire)

Detection(fire) ==
    [latitude   |-> fire.latitude,
     confidence |-> AdjustedConf(fire),
     power_mw   |-> GetPower(fire),
     source     |-> IF "source" \in DOMAIN fire THEN fire.source ELSE "VIIRS"]

\* a high bucket that starts above 0.8: conf > 0.8
IsHighStrict(d) == FloatLess(Float(80), d.confidence)

IsHigh(d) == ~FloatLess(d.confidence, Float(80))

IsModerate(d) == ~IsHigh(d) /\ ~FloatLess(d.confidence, Float(60))

IsLow(d) == ~IsHigh(d) /\ ~IsModerate(d)

\* the loop over the fires and the dict returned
get_fire_detections_with_confidence(fires) ==
    LET ds == [i \in 1..Len(fires) |-> Detection(fires[i])]
    IN [total_detections    |-> Len(fires),
        high_confidence     |-> SelectSeq(ds, IsHigh),
        moderate_confidence |-> SelectSeq(ds, IsModerate),
        low_confidence      |-> SelectSeq(ds, IsLow)]

\* the fires get_active_fires hands over are those _generate_demo_fires
\* draws: confidence uniform(0.75, 0.99) and power randint(300, 1200), here
\* the ends of both ranges, the power threshold 500 from both sides and
\* confidences whose sum with 0.1 or 0.05 is rounded
FireConfidences == {75, 80, 82, 90, 99}

FirePowers == {300, 500, 501, 600, 1200}

FireSamples ==
    { [latitude |-> 35, confidence |-> Float(c), power_mw |-> p,
       source |-> "NASA FIRMS Demo (Unknown)"] :
          c \in FireConfidences, p \in FirePowers }

FireLists == UNION { [1..n -> FireSamples] : n \in 0..MaxFires }

GetFireDetectionsWithConfidence ==
    /\ kpc = "call"
    /\ report' = get_fire_detections_with_confidence(active_fires)
    /\ kpc' = "done"
    /\ UNCHANGED <<active_fires, nonClient>>

InitClient ==
    /\ kpc = "call"
    /\ active_fires \in FireLists
    /\ report = NoReport
    /\ ApiIdle
    /\ FeedIdle
    /\ StoreIdle
    /\ CacheEmpty
    /\ FetchIdle
    /\ PureIdle /\ ppc = "done" /\ fn = "none"
    /\ AlertIdle

NextClient == GetFireDetectionsWithConfidence

SpecClient == InitClient /\ [][NextClient]_vars

-----------------------------------------------------------------------------
(* The HTTP endpoints that report fires and dust *)

\* round(x, 4) where the result is not a whole number: the float of n
\* ten-thousandths
Round4(n) == [e4 |-> n]

\* _generate_realistic_fire_detections(coordinates): two detections, each
\* with confidence round(uniform(0.70, 0.95), 2), here in ten-thousandths.
\* A detection lies 1 to 50 km from the centre in a drawn direction; those
\* of the model are the ones drawn 1 km due east of (40, -120), whose
\* latitude rounds to 40.0 and whose longitude to -119.9882
RealisticSamples ==
    { [latitude |-> 40, longitude |-> Round4(-1199882), confidence |-> c,
       power_mw |-> 100, source |-> "MODIS (Demo)"] :
          c \in {7000, 9500} }

_generate_realistic_fire_detections == [1..2 -> RealisticSamples]

\* the fires _generate_demo_fires draws: confidence uniform(0.75, 0.99),
\* power randint(300, 1200)
DemoFireSamples ==
    { [latitude |-> 35, confidence |-> Float(c), power_mw |-> p,
       source |-> "NASA FIRMS Demo (Unknown)"] : c \in {75, 99}, p \in {300, 1200} }

\* _generate_demo_fires away from its fire regions: randint(0, 2) fires
_generate_demo_fires == UNION { [1..n -> DemoFireSamples] : n \in 0..2 }

\* det['source'] = tag for every detection
Retag(dets, tag) == [i \in 1..Len(dets) |-> [dets[i] EXCEPT !.source = tag]]

\* 'Demo' in source: the text holds the word somewhere, in this spelling
IsDemo(source) ==
    \E i \in 1..(Len(source) - 3) : SubSeq(source, i, i + 3) = "Demo"

\* the requests to POST /api/detect/fires, with what the feed answers and
\* what the generator draws during the call
DetectFiresCalls ==
    { [endpoint |-> "detect_fires", coordinates |-> c, radius_km |-> 50,
       confidence_threshold |-> th, background_tasks |-> bt, HAS_FIRMS |-> hf,
       client_raises |-> cr, feed |-> f, demo |-> d] :
          c \in {<<40, -120>>, <<91, -120>>, <<40, -181>>, <<40>>},
          th \in {7000, 9600}, bt \in BOOLEAN, hf \in BOOLEAN, cr \in BOOLEAN,
          f \in ResponseSamples, d \in _generate_realistic_fire_detections }

\* the requests to POST /fires/region and POST /detect/dust
RegionCalls ==
    { [endpoint |-> e, latitude |-> lat, longitude |-> lon, radius_km |-> r,
       fires |-> fs] :
          e \in {"detect_fires_in_region", "detect_dust"},
          lat \in {35, 91, -91}, lon \in {-110, 181}, r \in {100, 0, 501},
          fs \in _generate_demo_fires }

\* the satellites POST /detect/smoke accepts
SATELLITES == {"MODIS", "VIIRS", "GOES"}

\* the requests to POST /detect/smoke
SmokeCalls ==
    { [endpoint |-> "detect_smoke", satellite |-> sat, coordinates |-> c,
       confidence |-> Float(70), fires |-> fs] :
          sat \in {"VIIRS", "LANDSAT"},
          c \in {<<35, -110>>, <<91, -110>>, <<35, -181>>, <<35>>},
          fs \in _generate_demo_fires }

\* detect_fires of extended_main.py. The HTTPException raised for invalid
\* coordinates is raised inside the try block, whose except Exception clause
\* turns it into a 500 with detail str(e), a text that depends on the version
\* of the framework.
DetectFiresHandler ==
    /\ apc = "call" /\ call.endpoint = "detect_fires"
    /\ apc' = "done"
    /\ IF validate_coordinates(call.coordinates) # "True"
       THEN /\ \E detail \in {"400: Invalid coordinates", ""} :
                  reply' = [status |-> 500, detail |-> detail]
            /\ effects' = <<>>
            /\ fallback' = FALSE
       ELSE LET asked      == call.HAS_FIRMS /\ ~call.client_raises
                real_fires == IF asked
                              THEN fetch_fires_in_region(call.coordinates[1],
                                                         call.coordinates[2], call.feed)
                              ELSE <<>>
                converted  == [i \in 1..Len(real_fires) |->
                                  [latitude   |-> real_fires[i].latitude,
                                   longitude  |-> real_fires[i].longitude,
                                   confidence |-> real_fires[i].confidence,
                                   power_mw   |-> real_fires[i].frp,
                                   source     |-> "NASA FIRMS (Real-time)"]]
                found      == IF ~call.HAS_FIRMS
                              THEN Retag(call.demo, "Demo Data")
                              ELSE IF call.client_raises \/ Len(converted) = 0
                              THEN Retag(call.demo,
                                     "Demo Data (FIRMS unavailable - Network restricted)")
                              ELSE converted
                Confident(d) == d.confidence >= call.confidence_threshold
                high_conf  == SelectSeq(found, Confident)
                fetched    == IF asked THEN <<[op |-> "fetch_fires_in_region"]>> ELSE <<>>
            IN /\ fallback' = (~call.HAS_FIRMS \/ call.client_raises \/ Len(converted) = 0)
               /\ \/ /\ reply' = [status |-> 200, found |-> found,
                                  high_confidence_detections |-> high_conf,
                                  count |-> Len(found),
                                  real_data |-> /\ call.HAS_FIRMS
                                                /\ Len(found) > 0
                                                /\ \A i \in 1..Len(found) :
                                                      ~IsDemo(found[i].source)]
                     /\ effects' =
                           fetched
                           \o (IF high_conf # <<>>
                               THEN <<[op |-> "add_detections_batch", batch |-> high_conf]>>
                               ELSE <<>>)
                           \o (IF call.background_tasks /\ high_conf # <<>>
                               THEN <<[op |-> "add_task", batch |-> high_conf]>>
                               ELSE <<>>)
                  \* add_detections_batch raises (the database is locked, the
                  \* disk is full): its transaction is rolled back, no task is
                  \* added and except Exception answers 500 with str(e)
                  \/ /\ high_conf # <<>>
                     /\ reply' = [status |-> 500, detail |-> "database is locked"]
                     /\ effects' = fetched

\* the handler with its calls to the history store and to the background
\* tasks kept as the list of its effects
DetectFires ==
    /\ DetectFiresHandler
    /\ UNCHANGED <<call, nonApi>>

\* the checks both endpoints of main.py make before they ask for fires
RegionRejects ==
    IF ~(-90 <= call.latitude /\ call.latitude <= 90
            /\ -180 <= call.longitude /\ call.longitude <= 180)
    THEN "Invalid coordinates"
    ELSE IF call.radius_km < 1 \/ call.radius_km > 500
    THEN "Radius must be between 1-500 km"
    ELSE ""

\* detect_fires_in_region of main.py; except HTTPException: raise lets the
\* 400 through
DetectFiresInRegion ==
    /\ apc = "call" /\ call.endpoint = "detect_fires_in_region"
    /\ apc' = "done"
    /\ IF RegionRejects # ""
       THEN /\ reply' = [status |-> 400, detail |-> RegionRejects]
            /\ effects' = <<>>
            /\ fallback' = FALSE
       ELSE LET fire_data == get_fire_detections_with_confidence(call.fires)
            IN /\ reply' = [status |-> 200,
                            total_detections    |-> Len(call.fires),
                            high_confidence     |-> fire_data.high_confidence,
                            moderate_confidence |-> fire_data.moderate_confidence,
                            low_confidence      |-> fire_data.low_confidence,
                            data_source         |-> "NASA FIRMS (VIIRS NRT)"]
               /\ effects' = <<[op |-> "get_fire_detections_with_confidence"]>>
               /\ fallback' = TRUE
    /\ UNCHANGED <<call, nonApi>>

\* detect_dust of main.py: the fires of the two lower tiers, reported as dust
DetectDust ==
    /\ apc = "call" /\ call.endpoint = "detect_dust"
    /\ apc' = "done"
    /\ IF RegionRejects # ""
       THEN /\ reply' = [status |-> 400, detail |-> RegionRejects]
            /\ effects' = <<>>
            /\ fallback' = FALSE
       ELSE LET fire_data == get_fire_detections_with_confidence(call.fires)
                faint     == fire_data.low_confidence \o fire_data.moderate_confidence
                dust_detections ==
                    [i \in 1..Len(faint) |->
                        [latitude |-> faint[i].latitude,
                         source   |-> "NASA FIRMS (Aerosol Detection)"]]
            IN /\ reply' = [status |-> 200, total_detections |-> Len(dust_detections),
                            found |-> dust_detections,
                            data_source |-> "NASA FIRMS Aerosol Optical Depth"]
               /\ effects' = <<[op |-> "get_fire_detections_with_confidence"]>>
               /\ fallback' = TRUE
    /\ UNCHANGED <<call, nonApi>>

\* the checks of detect_smoke, in their order
SmokeRejects ==
    IF call.satellite \notin SATELLITES
    THEN "Invalid satellite: " \o call.satellite
    ELSE IF Len(call.coordinates) # 2
    THEN "Coordinates must be [lat, lon]"
    ELSE IF ~(-90 <= call.coordinates[1] /\ call.coordinates[1] <= 90
                 /\ -180 <= call.coordinates[2] /\ call.coordinates[2] <= 180)
    THEN "Invalid coordinates"
    ELSE ""

\* detect_smoke of main.py: the high tier and the fires of the moderate tier
\* at or over the requested confidence, with all the fires as they came
DetectSmoke ==
    /\ apc = "call" /\ call.endpoint = "detect_smoke"
    /\ apc' = "done"
    /\ IF SmokeRejects # ""
       THEN /\ reply' = [status |-> 400, detail |-> SmokeRejects]
            /\ effects' = <<>>
            /\ fallback' = FALSE
       ELSE LET fire_data == get_fire_detections_with_confidence(call.fires)
                Asked(d)  == ~FloatLess(d.confidence, call.confidence)
                high_conf == fire_data.high_confidence
                moderate_conf == SelectSeq(fire_data.moderate_confidence, Asked)
            IN /\ reply' = [status |-> 200,
                            total_fires_detected      |-> fire_data.total_detections,
                            high_confidence_fires     |-> Len(high_conf),
                            moderate_confidence_fires |-> Len(moderate_conf),
                            filtered_detections       |-> high_conf \o moderate_conf,
                            all_detections            |-> call.fires,
                            source                    |-> "NASA FIRMS (VIIRS NRT)"]
               /\ effects' = <<[op |-> "get_fire_detections_with_confidence"]>>
               /\ fallback' = TRUE
    /\ UNCHANGED <<call, nonApi>>

InitApi ==
    /\ apc = "call"
    /\ call \in DetectFiresCalls \cup RegionCalls \cup SmokeCalls
    /\ effects = <<>>
    /\ reply = [status |-> 0]
    /\ fallback = FALSE
    /\ ClientIdle
    /\ FeedIdle
    /\ StoreIdle
    /\ CacheEmpty
    /\ FetchIdle
    /\ PureIdle /\ ppc = "done" /\ fn = "none"
    /\ AlertIdle

NextApi ==
    \/ DetectFires
    \/ DetectFiresInRegion
    \/ DetectSmoke
    \/ DetectDust

SpecApi == InitApi /\ [][NextApi]_vars

-----------------------------------------------------------------------------
(* The alerts of POST /api/detect/fires: the handler, its background task,
   the alert marks of the store and its statistics *)

\* the batch of an effect of the handler, if the handler had that effect
BatchOf(op, done) ==
    IF \E n \in 1..Len(done) : done[n].op = op
    THEN done[CHOOSE n \in 1..Len(done) : done[n].op = op].batch
    ELSE <<>>

\* the rows add_detections_batch stores for the detections of the handler,
\* which carry a position and a confidence and no timestamp; the batch is
\* stored in one transaction
StoredRows(batch, t, center_coordinates) ==
    [i \in 1..Len(batch) |->
        LET rec == Record([latitude   |-> PyNum(batch[i].latitude),
                           longitude  |-> batch[i].longitude,
                           confidence |-> batch[i].confidence],
                          t, center_coordinates)
        IN [id             |-> sqlite_sequence + i,
            detection_time |-> rec.detection_time,
            latitude       |-> rec.latitude.n,
            longitude      |-> rec.longitude,
            confidence     |-> rec.confidence,
            center_lat     |-> rec.center_lat,
            center_lon     |-> rec.center_lon,
            alert_sent     |-> 0,
            alert_time     |-> NULL,
            batch          |-> sqlite_sequence + 1,
            pos            |-> i,
            size           |-> Len(batch)]]

\* detect_fires with its effects: the detections at or over the threshold
\* are stored by add_detections_batch, whose ids the handler drops, and
\* send_fire_alerts is added to the background tasks with the same
\* detections; "ids" notes the rows the request stored for the detections of
\* the task
DetectFiresStoring ==
    /\ DetectFiresHandler
    /\ LET stored == BatchOf("add_detections_batch", effects')
           queued == BatchOf("add_task", effects')
       IN /\ table_fires' = table_fires \o StoredRows(stored, store_clock, call.coordinates)
          /\ sqlite_sequence' = sqlite_sequence + Len(stored)
          /\ tasks' = IF queued # <<>>
                      THEN Append(tasks, [detections |-> queued,
                                          ids |-> [i \in 1..Len(queued) |->
                                                      sqlite_sequence + i]])
                      ELSE tasks
    /\ UNCHANGED <<call, txn, last_insert_rowid, spc, detections, records, record_ids,
                   store_clock, recent, outcome, delivered, statistics, nonAlert>>

\* EmailAlertSystem.send_fire_alert's default confidence_threshold, 0.8, in
\* ten-thousandths
AlertThreshold == 8000

\* send_fire_alerts, run after the response: send_fire_alert mails the
\* detections of the task with confidence >= 0.8 and returns True, or sends
\* nothing and returns False (mail not configured, no such detection, or the
\* mail server failed); the history store is not touched either way
SendFireAlerts ==
    /\ tasks # <<>>
    /\ LET task     == Head(tasks)
           alerted  == {task.ids[i] : i \in {j \in 1..Len(task.ids) :
                            task.detections[j].confidence >= AlertThreshold}}
       IN \/ /\ alerted # {}
             /\ delivered' = delivered \cup alerted
          \/ /\ delivered' = delivered
    /\ tasks' = Tail(tasks)
    /\ UNCHANGED <<statistics, storeVars, apiVars, nonAlert>>

\* get_statistics runs five SELECTs, one after the other, each over the table
\* as it is then; `st` holds what the call has read so far. The cutoff is
\* taken once, before the first. The third and the fourth read AVG(confidence)
\* and SUM(power_mw), whose values the model does not keep. Confidences of
\* the rows are in ten-thousandths here.
get_statistics(st, rows, t, days) ==
    LET cutoff_time == IF st.selects = 0
                       THEN isoformat(t - HalfHoursPerDay * days)
                       ELSE st.cutoff_time
        Counted(row) == ~TextLess(row.detection_time, cutoff_time)
        High(row)    == Counted(row) /\ row.confidence >= 8000
        Alerted(row) == Counted(row) /\ row.alert_sent = 1
    IN CASE st.selects = 0 ->
                [st EXCEPT !.selects = 1, !.cutoff_time = cutoff_time,
                           !.total_detections = Len(SelectSeq(rows, Counted))]
         [] st.selects = 1 ->
                [st EXCEPT !.selects = 2,
                           !.high_confidence_detections = Len(SelectSeq(rows, High))]
         [] st.selects \in {2, 3} ->
                [st EXCEPT !.selects = @ + 1]
         [] st.selects = 4 ->
                [st EXCEPT !.selects = 5,
                           !.alerts_sent = Len(SelectSeq(rows, Alerted))]

\* a get_statistics call with the default of 30 days, one SELECT at a step:
\* the fifth makes the dict the call returns; a SELECT that raises
\* (sqlite3.OperationalError) ends the call with {}
GetStatistics ==
    /\ LET st == IF DOMAIN statistics # {} /\ statistics.selects \in 1..4
                 THEN statistics
                 ELSE NoStatistics
       IN \/ statistics' = get_statistics(st, table_fires, store_clock, 30)
          \/ statistics' = EmptyDict
    /\ UNCHANGED <<tasks, delivered, storeVars, apiVars, nonAlert>>

\* one request to POST /api/detect/fires over an empty history
InitAlerts ==
    /\ apc = "call"
    /\ call \in DetectFiresCalls
    /\ effects = <<>>
    /\ reply = [status |-> 0]
    /\ fallback = FALSE
    /\ AlertIdle
    /\ ClientIdle
    /\ FeedIdle
    /\ StoreIdle
    /\ CacheEmpty
    /\ FetchIdle
    /\ PureIdle /\ ppc = "done" /\ fn = "none"

\* the request, its background task and the statistics; mark_alert_sent has
\* no caller in the program
NextAlerts ==
    \/ DetectFiresStoring
    \/ SendFireAlerts
    \/ GetStatistics

SpecAlerts == InitAlerts /\ [][NextAlerts]_vars

\* the step in which the k-th SELECT of get_statistics succeeds
SelectSucceeds(k) ==
    /\ GetStatistics
    /\ DOMAIN statistics' # {}
    /\ statistics'.selects = k

\* the background tasks are run after the response; the statistics can always
\* be asked again, and a database that raises does not raise for ever: each
\* SELECT of get_statistics that is tried again and again succeeds in the end.
\* The handler needs no condition of its own, since it runs once and the
\* tasks exist only after it has returned
SpecAlertsLive ==
    /\ SpecAlerts
    /\ WF_vars(SendFireAlerts)
    /\ \A k \in 1..5 : SF_vars(SelectSucceeds(k))

-----------------------------------------------------------------------------
(* Properties of the cache, checked under SpecCache *)

CachePost == [files |-> files', access_times |-> access_times']

\* a step in which a fetch stores the image of a request not in the cache
StoresNewKey ==
    /\ fpc = "await" /\ fpc' = "done" /\ result' # NoImage
    /\ RequestKey[request] \notin DOMAIN files

\* C3: starting from an empty cache, a store (set followed by clear_old) of a
\* new key removes nothing while the cache holds fewer than max_size entries;
\* the store that makes max_size + 1 removes exactly one entry, and it is an
\* entry whose last access (set or get hit) is the oldest; a get on it returns
\* absent and every other entry is still retrievable with its payload.
C3_EvictsLeastRecentlyAccessed ==
    [][ StoresNewKey =>
          LET K  == DOMAIN files
              nk == RequestKey[request]
          IN IF Cardinality(K) < MaxSize
             THEN DOMAIN files' = K \cup {nk}
             ELSE \E v \in Requests :
                    /\ RequestKey[v] \in K
                    /\ DOMAIN files' = (K \cup {nk}) \ {RequestKey[v]}
                    /\ \A r \in Requests :
                          RequestKey[r] \in K => last_access[v] <= last_access[r]
                    /\ \A kw \in KwOrders(v) :
                          ImageCache_get(CachePost, kw, clock').value = NoImage
                    /\ \A r \in Requests :
                          RequestKey[r] \in (K \cup {nk}) \ {RequestKey[v]} =>
                             ImageCache_get(CachePost, CacheKeyDict(r), clock').value
                                = ImageOf(r)
      ]_vars

\* C4: on a cache that started empty, after every completed fetch (hit, miss,
\* success or failure) the cache holds at most max_size entries, on disk and
\* in its table of access times.
C4_CapacityBounded ==
    fpc = "done" =>
        /\ Cardinality(DOMAIN files) <= MaxSize
        /\ Len(access_times) <= MaxSize

\* the cache holds a payload under the key of a request: a file whose write
\* did not finish holds none, get reads it as absent
Present(r) ==
    /\ RequestKey[r] \in DOMAIN files
    /\ files[RequestKey[r]] # Truncated

\* C6: the cache is asked before any network attempt: no attempt is in flight
\* and no backoff sleep is running for a request whose key is in the cache; a
\* fetch that hits returns the payload stored under the key with no work item
\* and no sleep; a direct get, with the keyword arguments in any order, gives
\* back the stored payload.
C6_CacheHitBypassesFetch ==
    /\ fpc \in {"await", "sleep"} => ~Present(request)
    /\ (Present(request) /\ workers # <<>>) =>
          /\ fpc = "done" /\ ~hit
          /\ result = files[RequestKey[request]]
    /\ hit =>
          /\ fpc = "done"
          /\ RequestKey[request] \in DOMAIN files
          /\ result = files[RequestKey[request]]
          /\ result = ImageOf(request)
          /\ workers = <<>>
          /\ sleeps = <<>>
    /\ retrieved # NoRetrieval =>
          /\ retrieved.kwargs \in KwOrders(request)
          /\ retrieved.value = IF Present(request)
                               THEN files[RequestKey[request]]
                               ELSE NoImage

\* a fetch was answered from the cache
C6_Witness ==
    /\ fpc = "done" /\ hit
    /\ result = ImageOf(request)
    /\ workers = <<>> /\ sleeps = <<>>

-----------------------------------------------------------------------------
(* Properties of the fetch and the cache, checked under SpecCancel *)

\* the keys that have an access-time record
Recorded == {access_times[i].key : i \in 1..Len(access_times)}

\* C25: a fetch that fails, times out or is cancelled where it is suspended
\* leaves the cache as it was when the fetch started. No step of a fetch
\* changes the payloads or the access records of the cache, except the last
\* step of a successful attempt, which stores the image it returns, and a
\* lookup that hits; a work item abandoned by a timeout or a cancellation
\* never writes. Every payload of the cache is a whole image and has an
\* access record. A cancellation request that wait_for loses does not
\* cancel the fetch: what the fetch writes afterwards is the write of a
\* successful attempt.
C25_FailedFetchLeavesCache ==
    /\ [][ (files' # files \/ access_times' # access_times) =>
              \/ /\ fpc = "await" /\ fpc' = "done"
                 /\ Current.state = "image" /\ ~Current.abandoned
                 /\ result' = Current.image
                 /\ files'[RequestKey[request]] = result'
              \/ /\ fpc \in {"idle", "done", "cancelled"}
                 /\ hit' /\ fpc' = "done"
                 /\ files' = files ]_vars
    /\ []( /\ DOMAIN files = Recorded
           /\ \A r \in Requests :
                 RequestKey[r] \in DOMAIN files => files[RequestKey[r]] = ImageOf(r) )

-----------------------------------------------------------------------------
(* Properties of the cache under faults, checked under SpecFaults *)

\* C30: the access-time records of the cache match its payloads after any
\* sequence of get, set and clear_old, also when a payload write or deletion
\* fails and when the process is started again over its cache directory:
\* every stored payload has an access-time record and every record has a
\* stored payload.
C30_RecordsMatchPayloads == DOMAIN files = Recorded

-----------------------------------------------------------------------------
(* Properties of the retry loop, checked under SpecFetch *)

\* some layer request of the fetch has answered with an image
YieldedImage == \E w \in 1..Len(workers) : workers[w].state = "image"

\* an attempt of the fetch has been handed an image by its work item
DeliveredImage ==
    \E w \in 1..Len(workers) : workers[w].state = "image" /\ ~workers[w].abandoned

\* a step that starts another operation of the fetcher
StartsOperation ==
    /\ fpc \in {"idle", "done"}
    /\ \/ fpc' = "idle"
       \/ workers' = <<>>
       \/ workers' = <<NewWorker>>

\* C5: when the source fails on every try, the fetch returns absent and by
\* then each layer of the product has been tried exactly max_retries times.
C5_ExactlyMaxRetriesPerLayer ==
    (fpc = "done" /\ ~hit /\ result = NoImage /\ workers # <<>> /\ ~YieldedImage) =>
        \A l \in 1..NumLayers : Tries(l) = MaxRetries

\* C7: once a layer has yielded an image to an attempt of a fetch, no layer
\* request and no retry of that fetch follows, and a fetch that returns an
\* image has stored it under the key of the request, so that the same fetch
\* repeated at once is answered from the cache.
C7_SuccessShortCircuits ==
    /\ [][ (DeliveredImage /\ ~StartsOperation) =>
              /\ Len(workers') = Len(workers)
              /\ \A w \in 1..Len(workers) : workers'[w].layer = workers[w].layer ]_vars
    /\ []( (fpc = "done" /\ result # NoImage) =>
              /\ RequestKey[request] \in DOMAIN files
              /\ files[RequestKey[request]] = result
              /\ ImageCache_get(Cache, CacheKeyDict(request), clock).value = result )

\* C22: within one fetch, every attempt i > 0 (counted from 0) starts only
\* after a backoff sleep of 2^i seconds that follows attempt i-1, whether
\* attempt i-1 ended by a timeout, an error or an empty result: while attempt
\* i is in progress the fetch has slept i times, the k-th time 2^k seconds.
C22_BackoffSchedule ==
    (fpc = "await" /\ attempt > 0) =>
        /\ Len(sleeps) = attempt
        /\ \A k \in 1..Len(sleeps) : sleeps[k] = 2 ^ k

\* how often the request of layer number l has failed in this fetch
Failures(l) ==
    Cardinality({w \in 1..Len(workers) :
                    \/ workers[w].layer > l
                    \/ workers[w].layer = l /\ workers[w].state = "none"})

\* C23: the layers of the product are tried in their configured order and the
\* retries are per layer: a layer after the first is tried in a fetch only
\* after the layer before it has failed max_retries times in that fetch.
C23_RetriesPerLayer ==
    \A l \in 2..NumLayers : Tries(l) > 0 => Failures(l - 1) >= MaxRetries

-----------------------------------------------------------------------------
(* Properties of the history store, checked under SpecStore *)

\* the rows of the table that belong to the batch whose first id is b
RowsOf(b) == {i \in 1..Len(table_fires) : table_fires[i].batch = b}

\* the first id of the rows of the call that has just ended
ThisBatch ==
    IF spc = "returned" THEN sqlite_sequence - Len(records) + 1 ELSE sqlite_sequence + 1

\* C1: add_detections_batch is atomic. In every reachable state the table
\* holds, of every batch, either a row for each of its events or no row; when
\* the call has returned the table holds one row for every event of the batch,
\* with the values of the event, and when it has raised, at whatever point,
\* the table holds no row of the batch.
C1_BatchAtomic ==
    /\ \A i \in 1..Len(table_fires) :
          \A k \in 1..table_fires[i].size :
             \E j \in 1..Len(table_fires) :
                /\ table_fires[j].batch = table_fires[i].batch
                /\ table_fires[j].pos = k
    /\ spc = "returned" =>
          /\ Cardinality(RowsOf(ThisBatch)) = Len(detections)
          /\ \A k \in 1..Len(detections) :
                \E j \in RowsOf(ThisBatch) :
                   /\ table_fires[j].pos = k
                   /\ table_fires[j].latitude = detections[k].latitude.n
                   /\ table_fires[j].confidence = detections[k].confidence
    /\ spc = "raised" => RowsOf(ThisBatch) = {}

\* a batch whose second event cannot be inserted has raised after its first
\* event was inserted, on a table that holds an earlier batch
C1_Witness ==
    /\ spc = "raised"
    /\ table_fires # <<>>
    /\ Len(detections) = 2
    /\ IsDict(detections[1]) /\ IsDict(detections[2])
    /\ detections[1].latitude # PyNone
    /\ detections[2].latitude = PyNone

\* datetime.fromisoformat: the instant a text stands for
fromisoformat(text) == 2 * text[1] + (IF Len(text) > 1 THEN 1 ELSE 0)

\* C2: get_recent_detections(hours, min_confidence = 0) with a limit not
\* smaller than the number of stored events returns every stored event whose
\* detection_time lies within the last `hours` hours exactly once, returns
\* only stored events, and lists them in non-increasing detection_time order.
C2_RecentAfterBatch ==
    (recent # NoQuery /\ recent.min_confidence = 0 /\ recent.limit >= Len(table_fires)) =>
        /\ \A i \in 1..Len(table_fires) :
              fromisoformat(table_fires[i].detection_time) >= recent.at - 2 * recent.hours =>
                 Cardinality({k \in 1..Len(recent.rows) : recent.rows[k] = table_fires[i]}) = 1
        /\ \A k \in 1..Len(recent.rows) :
              \E i \in 1..Len(table_fires) : recent.rows[k] = table_fires[i]
        /\ \A k \in 1..Len(recent.rows) : \A l \in k..Len(recent.rows) :
              fromisoformat(recent.rows[k].detection_time)
                 >= fromisoformat(recent.rows[l].detection_time)

\* the stored rows a query asks for: in the window and confident enough
Asked(q) ==
    { i \in 1..Len(table_fires) :
        /\ fromisoformat(table_fires[i].detection_time) >= q.at - 2 * q.hours
        /\ table_fires[i].confidence >= q.min_confidence }

\* the later event first; of two events of one instant, the smaller id first
Before(a, b) ==
    \/ fromisoformat(a.detection_time) > fromisoformat(b.detection_time)
    \/ /\ fromisoformat(a.detection_time) = fromisoformat(b.detection_time)
       /\ a.id < b.id

\* C14: get_recent_detections returns at most `limit` rows, ordered by
\* detection_time descending and, among rows of equal detection_time, by id
\* ascending; when more rows match than `limit` it returns the first `limit`
\* rows of that order.
C14_RecentTotalOrder ==
    recent # NoQuery =>
        /\ Len(recent.rows) <= recent.limit
        /\ Len(recent.rows) = IF Cardinality(Asked(recent)) < recent.limit
                              THEN Cardinality(Asked(recent)) ELSE recent.limit
        /\ \A k \in 1..Len(recent.rows) : \A l \in (k + 1)..Len(recent.rows) :
              Before(recent.rows[k], recent.rows[l])
        /\ \A i \in Asked(recent) :
              \/ \E k \in 1..Len(recent.rows) : recent.rows[k] = table_fires[i]
              \/ \A k \in 1..Len(recent.rows) : Before(recent.rows[k], table_fires[i])

-----------------------------------------------------------------------------
(* Properties of the location query, checked under SpecLocation *)

\* whether the last location query returned a row
Returned(row) == \E k \in 1..Len(outcome.rows) : outcome.rows[k] = row

\* detection_time within the last `days` days of the query
InDays(row) ==
    fromisoformat(row.detection_time) >= outcome.at - HalfHoursPerDay * outcome.days

\* the distance from the centre of the query to the event's own position
OwnDistance(row) ==
    tracker_haversine_distance(outcome.latitude, outcome.longitude,
                               row.latitude, row.longitude)

\* the distance from the centre of the query to the stored search centre
CenterDistance(row) ==
    tracker_haversine_distance(outcome.latitude, outcome.longitude,
                               row.center_lat, row.center_lon)

\* the radius invariant, the distance of a record being that of its position
RadiusInvariantOwn ==
    /\ \A k \in 1..Len(outcome.rows) :
          OwnDistance(outcome.rows[k]) <= outcome.radius_km /\ InDays(outcome.rows[k])
    /\ \A i \in 1..Len(table_fires) :
          (InDays(table_fires[i]) /\ OwnDistance(table_fires[i]) = outcome.radius_km)
              => Returned(table_fires[i])

\* the radius invariant, the distance of a record being that of its search centre
RadiusInvariantCenter ==
    /\ \A k \in 1..Len(outcome.rows) :
          CenterDistance(outcome.rows[k]) <= outcome.radius_km /\ InDays(outcome.rows[k])
    /\ \A i \in 1..Len(table_fires) :
          (InDays(table_fires[i]) /\ CenterDistance(table_fires[i]) = outcome.radius_km)
              => Returned(table_fires[i])

\* C15: every record get_detections_by_location returns is within radius_km
\* of the centre of the query and within the last `days` days; a record at
\* exactly radius_km is returned, and one farther away is not, even inside
\* the box of the SQL filter. The distance may be read as that of the
\* event's position or as that of its stored search centre.
C15_RadiusInvariant ==
    outcome.op = "get_detections_by_location" =>
        (RadiusInvariantOwn \/ RadiusInvariantCenter)

\* C16: a record in the time window is returned iff its stored search centre
\* (center_lat, center_lon) is within radius_km of the centre of the query,
\* whatever the event's own latitude and longitude.
C16_FiltersOnSearchCenter ==
    outcome.op = "get_detections_by_location" =>
        \A i \in 1..Len(table_fires) :
            InDays(table_fires[i]) =>
                (Returned(table_fires[i])
                    <=> CenterDistance(table_fires[i]) <= outcome.radius_km)

\* C28: the box filter of get_detections_by_location is only a prefilter: it
\* removes no record that the exact distance filter would accept, so every
\* row in the time window whose own position is within radius_km of the
\* centre of the query is returned, whatever search centre it was recorded
\* with.
C28_BoxIsOnlyPrefilter ==
    outcome.op = "get_detections_by_location" =>
        \A i \in 1..Len(table_fires) :
            (InDays(table_fires[i]) /\ OwnDistance(table_fires[i]) <= outcome.radius_km)
                => Returned(table_fires[i])

-----------------------------------------------------------------------------
(* Properties of alert marks and cleanup, checked under SpecRetention *)

\* the instant max_history_days before the cleanup
Boundary == outcome.at - HalfHoursPerDay * max_history_days

\* C17: cleanup_old_records deletes exactly the rows whose detection_time is
\* strictly older than now - max_history_days, keeps every other row (a row
\* exactly at that instant stays), and returns the number of rows it deleted.
C17_PurgeStrictlyOlder ==
    outcome.op = "cleanup_old_records" =>
        /\ \A i \in 1..Len(outcome.before) :
              (\E j \in 1..Len(table_fires) : table_fires[j] = outcome.before[i])
                  <=> fromisoformat(outcome.before[i].detection_time) >= Boundary
        /\ \A j \in 1..Len(table_fires) :
              \E i \in 1..Len(outcome.before) : table_fires[j] = outcome.before[i]
        /\ outcome.result = Len(outcome.before) - Len(table_fires)

\* C18: mark_alert_sent on an id that is already marked changes nothing (the
\* row keeps alert_sent and the alert_time of the first call) and reports
\* success, as the first call did; on an unknown id it reports failure and
\* changes nothing.
C18_MarkAlertSentIdempotent ==
    outcome.op = "mark_alert_sent" =>
        /\ \A i \in 1..Len(outcome.before) :
              outcome.before[i].id = outcome.detection_id =>
                 /\ outcome.result
                 /\ table_fires[i].alert_sent = 1
                 /\ outcome.before[i].alert_sent = 1 => table_fires = outcome.before
        /\ (\A i \in 1..Len(outcome.before) :
                outcome.before[i].id # outcome.detection_id) =>
              (~outcome.result /\ table_fires = outcome.before)

-----------------------------------------------------------------------------
(* Properties of the feed client, checked under SpecFeed *)

\* a network failure, or a failure to parse the text of the response
SourceFailed(response) ==
    \/ response.raised
    \/ \E i \in 1..Len(response.rows) : RowRaises(DictRow(response.rows[i]))

\* what the hotspots asked so far should have contributed: nothing for a
\* source that failed, its events for a source that succeeded
RECURSIVE UnionOfSucceeded(_)
UnionOfSucceeded(n) ==
    IF n = 0 THEN <<>>
    ELSE UnionOfSucceeded(n - 1) \o
         (IF SourceFailed(responses[n]) THEN <<>>
          ELSE InRegion(fetch_fires_in_region(hotspots[n].lat, hotspots[n].lon,
                                              responses[n]),
                        hotspots[n].name))

\* C11: a fetch over several regions returns the events of the regions that
\* succeeded, in order, and nothing for a region whose request or whose
\* parsing failed; a fetch of one region that fails returns the empty list.
C11_PartialSuccessAcrossSources ==
    /\ gpc = "done" => all_fires = UnionOfSucceeded(Len(responses))
    /\ (gpc = "single" /\ SourceFailed(responses[1])) => all_fires = <<>>

\* C26: for every radius_km a caller gives fetch_fires_in_region, the radius
\* of the request issued to the feed lies in [1,1000]: a radius above 1000 is
\* sent as 1000 and one below 1 is sent as 1, the clamping being done before
\* the request is issued.
C26_RadiusClamped ==
    \A i \in 1..Len(urls) : urls[i].radius_km \in 1..1000

-----------------------------------------------------------------------------
(* Properties of the classifier, checked under SpecClient *)

\* the adjusted confidence as the sum of the decimal numbers, in hundredths
ExactAdjusted(fire) ==
    IF GetPower(fire) > 500 THEN GetConfidence(fire).h + 10
    ELSE IF GetPower(fire) > 100 THEN GetConfidence(fire).h + 5
    ELSE GetConfidence(fire).h

Tier(a) == IF a >= 80 THEN "high" ELSE IF a >= 60 THEN "moderate" ELSE "low"

InTier(t) ==
    Cardinality({ i \in 1..Len(active_fires) : Tier(ExactAdjusted(active_fires[i])) = t })

\* C12: each bucket holds the events whose adjusted confidence a lies in its
\* range (high: a >= 0.8, moderate: 0.6 <= a < 0.8, low: a < 0.6; a is the
\* confidence plus 0.1 above 500 MW, plus 0.05 above 100 MW), and the three
\* bucket sizes add up to the number of input events.
C12_TiersByAdjustedConfidence ==
    kpc = "done" =>
        /\ Len(report.high_confidence) = InTier("high")
        /\ Len(report.moderate_confidence) = InTier("moderate")
        /\ Len(report.low_confidence) = InTier("low")
        /\ Len(report.high_confidence) + Len(report.moderate_confidence)
               + Len(report.low_confidence) = Len(active_fires)

\* the fires (0.75, 600 MW) and (0.75, 300 MW) have been classified: the
\* first is reported high with 0.85, the second high with 0.8
C12_Witness ==
    /\ kpc = "done"
    /\ Len(active_fires) = 2
    /\ active_fires[1].confidence = Float(75) /\ active_fires[1].power_mw = 600
    /\ active_fires[2].confidence = Float(75) /\ active_fires[2].power_mw = 300
    /\ Len(report.high_confidence) = 2
    /\ report.high_confidence[1].confidence = Float(85)
    /\ report.high_confidence[2].confidence = Float(80)

\* the detections of the report, whatever their bucket
Reported == report.high_confidence \o report.moderate_confidence \o report.low_confidence

\* C13: the confidence a detection is reported with never exceeds 0.99.
C13_AdjustedConfidenceCapped ==
    kpc = "done" =>
        \A i \in 1..Len(Reported) : ~FloatLess(Float(99), Reported[i].confidence)

\* fires whose raised confidence passes 0.99 have been classified: 0.9 + 0.1
\* and 0.99 + 0.05 are both reported as 0.99
C13_Witness ==
    /\ kpc = "done"
    /\ Len(active_fires) = 2
    /\ active_fires[1].confidence = Float(90) /\ active_fires[1].power_mw = 1200
    /\ active_fires[2].confidence = Float(99) /\ active_fires[2].power_mw = 300
    /\ \A i \in 1..2 : Reported[i].confidence = Float(99)

-----------------------------------------------------------------------------
(* Properties of the endpoints, checked under SpecApi *)

\* the request asks for fires at coordinates outside the ranges
OutOfRange ==
    \/ /\ call.endpoint = "detect_fires"
       /\ Len(call.coordinates) = 2
       /\ validate_coordinates(call.coordinates) = "False"
    \/ /\ call.endpoint = "detect_fires_in_region"
       /\ RegionRejects = "Invalid coordinates"

\* C19: a fire-detection request with out-of-range coordinates causes no
\* feed fetch, no history write and no alert scheduling, and is answered with
\* status 400 "Invalid coordinates", not with an internal error.
C19_InvalidCoordinatesRejected ==
    (apc = "done" /\ OutOfRange) =>
        /\ effects = <<>>
        /\ reply.status = 400
        /\ reply.detail = "Invalid coordinates"

\* the events the response shows
Shown ==
    IF reply.status # 200 THEN <<>>
    ELSE IF call.endpoint = "detect_fires"
    THEN reply.found \o reply.high_confidence_detections
    ELSE IF call.endpoint = "detect_fires_in_region"
    THEN reply.high_confidence \o reply.moderate_confidence \o reply.low_confidence
    ELSE IF call.endpoint = "detect_smoke"
    THEN reply.filtered_detections \o reply.all_detections
    ELSE reply.found

\* the source the response names for all it shows
ResponseSources ==
    (IF "data_source" \in DOMAIN reply THEN {reply.data_source} ELSE {})
    \cup (IF "source" \in DOMAIN reply THEN {reply.source} ELSE {})

\* the events handed to the history store and to the alert task
RECURSIVE Kept(_)
Kept(n) ==
    IF n = 0 THEN <<>>
    ELSE Kept(n - 1) \o (IF "batch" \in DOMAIN effects[n] THEN effects[n].batch ELSE <<>>)

\* C20: every fabricated event, and every record derived from one, carries a
\* source tag that marks it as demo data, in the response and in what is
\* written to the history store; none appears under a tag that names only a
\* real provider, be it the tag of the event or the source the response
\* names for the events it shows.
C20_FabricatedEventsTagged ==
    (apc = "done" /\ fallback) =>
        /\ \A i \in 1..Len(Shown) : IsDemo(Shown[i].source)
        /\ \A i \in 1..Len(Kept(Len(effects))) : IsDemo(Kept(Len(effects))[i].source)
        /\ Shown # <<>> => \A tag \in ResponseSources : IsDemo(tag)

-----------------------------------------------------------------------------
(* Properties of the ids of the store, checked under SpecWriters *)

\* the rows of the latest call of this process
C27_OwnRows ==
    {j \in 1..Len(table_fires) :
        /\ table_fires[j].pos > 0
        /\ \A i \in 1..Len(table_fires) :
              table_fires[i].pos > 0 => table_fires[i].batch <= table_fires[j].batch}

\* C27: add_detections_batch of n events returns exactly n ids, strictly
\* increasing, the i-th being the id of the row inserted for the i-th event
\* of the batch, whatever inserts and cleanups came before and whatever
\* another writer inserts between the commit of the batch and the
\* computation of its ids; a new row never takes an id that was given before,
\* also after a cleanup, and no two rows share an id.
C27_BatchIdsMatchRows ==
    /\ []( spc = "returned" =>
              /\ Len(record_ids) = Len(detections)
              /\ \A k \in 1..(Len(record_ids) - 1) : record_ids[k] < record_ids[k + 1]
              /\ \A k \in 1..Len(record_ids) :
                    \E j \in C27_OwnRows :
                       /\ table_fires[j].id = record_ids[k]
                       /\ table_fires[j].pos = k
                       /\ table_fires[j].size = Len(detections)
                       /\ table_fires[j].detection_time = records[k].detection_time )
    /\ []( \A i, j \in 1..Len(table_fires) :
              table_fires[i].id = table_fires[j].id => i = j )
    /\ [][ \A j \in 1..Len(table_fires') :
              (\A i \in 1..Len(table_fires) : table_fires[i].id # table_fires'[j].id) =>
                  table_fires'[j].id > sqlite_sequence ]_vars

\* a batch of two events has returned its ids after an earlier row was
\* removed by a cleanup and after another writer inserted a row between the
\* commit of the batch and the computation of its ids
C27_Witness ==
    /\ spc = "returned"
    /\ Len(record_ids) = 2
    /\ record_ids[1] > 1
    /\ \A j \in 1..Len(table_fires) : table_fires[j].id >= record_ids[1]
    /\ \E j \in 1..Len(table_fires) :
          table_fires[j].pos = 0 /\ table_fires[j].id > record_ids[2]

-----------------------------------------------------------------------------
(* Properties of the ingestion boundary of the store, checked under SpecIngest *)

\* C21: every row of the history store has its latitude in [-90,90] and its
\* longitude in [-180,180], and a row is stored only for an event that
\* carried both coordinates: an event whose coordinates are out of range or
\* missing is rejected by add_detection and add_detections_batch and is never
\* stored with other coordinates than its own.
C21_GeoPointInvariant ==
    /\ \A i \in 1..Len(table_fires) :
          /\ table_fires[i].latitude \in -90..90
          /\ table_fires[i].longitude \in -180..180
    /\ spc = "returned" =>
          \A j \in RowsOf(ThisBatch) :
             LET e == detections[table_fires[j].pos]
             IN /\ "latitude" \in DOMAIN e
                /\ "longitude" \in DOMAIN e
                /\ table_fires[j].latitude = e.latitude.n
                /\ table_fires[j].longitude = e.longitude

-----------------------------------------------------------------------------
(* Properties of the alert bookkeeping, checked under SpecAlertsLive *)

\* the row of an id carries the mark of a sent alert
Marked(id) ==
    \E i \in 1..Len(table_fires) :
        /\ table_fires[i].id = id
        /\ table_fires[i].alert_sent = 1
        /\ table_fires[i].alert_time # NULL

\* C29: whenever an alert has been sent for detections the same request
\* stored, those rows eventually have alert_sent = 1 and an alert_time, and
\* get_statistics then counts as many alerts_sent as there are stored events
\* an alert was delivered for.
C29_AlertBookkeeping ==
    (delivered # {}) ~>
        ( /\ \A id \in delivered : Marked(id)
          /\ DOMAIN statistics # {}
          /\ statistics.selects = 5
          /\ statistics.alerts_sent = Cardinality(delivered) )

-----------------------------------------------------------------------------
(* Properties of the pure helpers, checked under SpecPure *)

\* C8: validate_coordinates accepts a coordinate list iff it has exactly two
\* components, the latitude in [-90,90] and the longitude in [-180,180], both
\* bounds inclusive; every other list is rejected with False and no call raises.
C8_ValidateIffInRange ==
    (fn = "validate_coordinates" /\ ppc = "done") =>
        /\ valid \in {"True", "False"}
        /\ (valid = "True") <=>
              /\ Len(coordinates) = 2
              /\ coordinates[1] \in -90..90
              /\ coordinates[2] \in -180..180

\* the corner (-90,-180) of both ranges has been validated and accepted
C8_Witness ==
    /\ fn = "validate_coordinates" /\ ppc = "done"
    /\ coordinates = <<-90, -180>>
    /\ valid = "True"

\* the value the normalisation table of C9 gives a Python value
C9_Table(c) ==
    IF c.type = "str"
    THEN IF c.s \in {"l", "L", "low", "LOW", "Low"} THEN 3000
         ELSE IF c.s \in {"n", "N", "nominal", "NOMINAL", "Nominal"} THEN 6000
         ELSE IF c.s \in {"h", "H", "high", "HIGH", "High"} THEN 9000
         ELSE 5000
    ELSE IF c.type = "num" /\ c.n \in 0..100 THEN c.n * 100
    ELSE IF c.type = "num" /\ c.n \in 101..10000 THEN c.n
    ELSE 5000

\* C9: _normalize_confidence maps "l"/"low" to 0.3, "n"/"nominal" to 0.6,
\* "h"/"high" to 0.9 in any letter case and every other string to 0.5; a number
\* in [0,1] to itself, a number in (1,100] to the number divided by 100, every
\* other number and every unparseable value to 0.5; the result is in [0,1].
C9_NormalizationTable ==
    (fn = "_normalize_confidence" /\ ppc = "done") =>
        /\ normalized = C9_Table(confidence)
        /\ normalized \in 0..10000

\* the percentage 100 has been normalised to 1.0
C9_Witness ==
    /\ fn = "_normalize_confidence" /\ ppc = "done"
    /\ confidence = PyNum(10000)
    /\ normalized = 10000

\* a row whose latitude, longitude and frp cells are present and numeric
C10_WellFormed(cells) ==
    /\ Len(cells) >= 3
    /\ \A i \in 1..3 : cells[i] \in FloatTexts

\* C10: in the feed parser every well-formed row yields exactly one event,
\* whatever malformed rows precede or follow it: the parser returns as many
\* fires as the table has well-formed rows.
C10_RowFaultIsolation ==
    (fn = "_parse_csv_response" /\ ppc = "done") =>
        Len(fires_out) =
            Cardinality({i \in 1..Len(csv_rows) : C10_WellFormed(csv_rows[i])})

\* the confidence, in ten-thousandths, of a confidence column that holds the
\* number p: p / 100 for a percentage in (1,100], p itself in [0,1]
C24_Encoded(p) == IF p <= 1 THEN p * 10000 ELSE p * 100

\* C24: for every row of the feed's table whose confidence column holds a
\* number p in (1,100], the fire _parse_csv_response makes of the row has
\* confidence p / 100, and a column holding a number in [0,1] gives that
\* number unchanged; only the other values take the categorical or the
\* default mapping.
C24_PercentageConfidenceScaled ==
    (fn = "_parse_csv_response" /\ ppc = "done") =>
        \A i \in 1..Len(fires_out) :
            LET cell == DictRow(csv_rows[i])["confidence"]
            IN (cell \in FloatTexts /\ FloatOf(cell) \in 0..100) =>
                   fires_out[i].confidence = C24_Encoded(FloatOf(cell))

=============================================================================
